---- MODULE Spec2Model ----
(***************************************************************************)
(* A model of src/helpers.ts of the Notion SDK: the cursor pagination      *)
(* generators (iteratePaginatedAPI, collectPaginatedAPI) as a state        *)
(* machine of async-generator instances driven by their consumers and by   *)
(* the replies of listFn, and the identifier normaliser (extractNotionId,  *)
(* formatUuid) as operators over sequences of characters.                  *)
(***************************************************************************)
EXTENDS Integers, Sequences, FiniteSets, TLC

(***************************************************************************)
(* JavaScript values that the pagination code tests for truthiness.        *)
(***************************************************************************)
Null == [t |-> "null"]
Undefined == [t |-> "undefined"]
Str(s) == [t |-> "string", v |-> s]

\* ToBoolean of a cursor value: null, undefined and "" are falsy.
Truthy(x) == x.t = "string" /\ x.v # ""

(***************************************************************************)
(* Bounds of the model.                                                    *)
(***************************************************************************)
\* listFn calls one sequence may issue
MaxCalls == 3
\* items on one page
MaxPageLen == 2
\* requests (next/return) a consumer may have outstanding on one iterator
MaxPending == 2
\* requests answered after the iterator has finished
MaxDone == 2

(***************************************************************************)
(* Inputs: what the caller passes and what listFn answers.                 *)
(***************************************************************************)
FalsyCursors == {Null, Undefined, Str("")}
TruthyCursors == {Str("c1")}
Cursors == FalsyCursors \cup TruthyCursors

\* the page of L items: <<>>, <<1>>, <<2, 3>>, <<3, 4, 5>>, ...
Page(L) == [j \in 1..L |-> L + j - 1]
Pages == {Page(L) : L \in 0..MaxPageLen}

Errors == {"E1", "E2"}

Resolved(rs, nc, hm) ==
  [t |-> "resolve", results |-> rs, next_cursor |-> nc, has_more |-> hm]
Rejected(e) == [t |-> "reject", error |-> e]

\* PaginatedList<Item>: every page, every cursor, has_more free of both
AllResponses == {Resolved(rs, nc, hm) : rs \in Pages, nc \in Cursors, hm \in BOOLEAN}

\* the replies to sequence i when several sequences run side by side: each
\* sequence has cursors and pages of its own
FewResponses(i) ==
  { Resolved(Page(i), Str(IF i = 1 THEN "c1" ELSE "c2"), TRUE),
    Resolved(Page(3 - i), Null, FALSE) }

\* firstPageArgs: start_cursor absent, null, empty or a cursor; other fields vary
FirstArgsChoices ==
  { [block_id |-> Str("b1")],
    [block_id |-> Str("b1"), start_cursor |-> Null],
    [block_id |-> Str("b2"), page_size |-> Str("10"), start_cursor |-> Str("c0")] }

VARIABLES
  firstPageArgs,  \* per sequence: the caller's firstPageArgs object
  consumer,       \* per sequence: "manual" (drives next/return itself) or "collect"
  gen,            \* per sequence: the generator's activation (state, nextCursor, pos)
  response,       \* per sequence: the generator's local response
  queue,          \* per sequence: the async generator's request queue
  calls,          \* per sequence: the argument objects listFn was invoked with
  replies,        \* per sequence: what listFn answered, in order
  out,            \* per sequence: what the iterator delivered to its consumer
  collected,      \* per sequence: collectPaginatedAPI's results array and promise
  op,             \* the helper function applied last ("start" before any)
  arg,            \* the argument it was applied to
  ret             \* what it returned

pageVars == <<firstPageArgs, consumer, gen, response, queue, calls, replies, out, collected>>
fnVars == <<op, arg, ret>>
vars == <<pageVars, fnVars>>

Seqs == DOMAIN gen

(***************************************************************************)
(* iteratePaginatedAPI, helpers.ts 53-66.                                  *)
(***************************************************************************)
\* firstPageArgs.start_cursor: undefined when the key is absent (line 57)
StartCursor(fpa) ==
  IF "start_cursor" \in DOMAIN fpa THEN fpa.start_cursor ELSE Undefined

\* Mutant: the spread of firstPageArgs is lost.
CallArgsOnlyCursor(fpa, nc) == [start_cursor |-> nc]

\* { ...firstPageArgs, start_cursor: nextCursor } (lines 59-62): a new object
CallArgs(fpa, nc) ==
  [k \in DOMAIN fpa \cup {"start_cursor"} |->
     IF k = "start_cursor" THEN nc ELSE fpa[k]]

\* Mutant: the loop tests nextCursor !== null instead of its truthiness.
ContinuesNotNull(nc) == nc # Null

\* the loop condition, line 65: ToBoolean(nextCursor)
Continues(nc) == Truthy(nc)

ItemOut(x) == [t |-> "item", v |-> x]
\* {done: true}, in answer to a next() or to a return()
DoneOut(req) == [t |-> "done", req |-> req]
ErrorOut(e) == [t |-> "error", error |-> e]

NoResponse == Resolved(<<>>, Undefined, FALSE)

\* await listFn(...): the call is issued and the generator waits for its reply
IssueCall(s, fpa) ==
  [s EXCEPT !.calls = Append(@, CallArgs(fpa, s.nextCursor)),
            !.state = "awaiting"]

\* the generator returns: the request in progress is answered {done: true}
Complete(s) ==
  [s EXCEPT !.state = "completed",
            !.out = Append(@, DoneOut(Head(s.queue))),
            !.queue = Tail(@)]

\* Mutant: the loop has no exit.
LoopTestNoEnd(s, fpa) == IssueCall(s, fpa)

\* } while (nextCursor), line 65
LoopTest(s, fpa) ==
  IF Continues(s.nextCursor) THEN IssueCall(s, fpa) ELSE Complete(s)

\* Mutant: the last item of every page is skipped.
ResumeNextDropLast(s, fpa) ==
  IF s.pos < Len(s.response.results)
  THEN [s EXCEPT !.out = Append(@, ItemOut(s.response.results[s.pos])),
                 !.pos = @ + 1,
                 !.queue = Tail(@)]
  ELSE LoopTest([s EXCEPT !.nextCursor = s.response.next_cursor], fpa)

\* Mutant: the next page is requested as soon as the last item of a page is
\* handed over, before the consumer asks for more.
ResumeNextPrefetch(s, fpa) ==
  IF s.pos <= Len(s.response.results)
  THEN LET t == [s EXCEPT !.out = Append(@, ItemOut(s.response.results[s.pos])),
                          !.pos = @ + 1,
                          !.queue = Tail(@),
                          !.nextCursor = s.response.next_cursor]
       IN IF s.pos = Len(s.response.results) /\ Continues(t.nextCursor)
          THEN IssueCall(t, fpa)
          ELSE t
  ELSE LoopTest([s EXCEPT !.nextCursor = s.response.next_cursor], fpa)

\* yield* response.results resumed by a next(): the next item of the page, or,
\* the page exhausted, nextCursor = response.next_cursor and the loop test
ResumeNext(s, fpa) ==
  IF s.pos <= Len(s.response.results)
  THEN [s EXCEPT !.out = Append(@, ItemOut(s.response.results[s.pos])),
                 !.pos = @ + 1,
                 !.queue = Tail(@)]
  ELSE LoopTest([s EXCEPT !.nextCursor = s.response.next_cursor], fpa)

\* Mutant: a next() on a finished generator starts the loop over.
HandleRequestRestart(s, fpa) ==
  LET req == Head(s.queue) IN
  CASE s.state = "completed" /\ req = "next" ->
         IssueCall([s EXCEPT !.nextCursor = StartCursor(fpa)], fpa)
    [] s.state = "completed" ->
         [s EXCEPT !.out = Append(@, DoneOut(req)), !.queue = Tail(@)]
    [] s.state = "suspendedStart" /\ req = "next" ->
         IssueCall([s EXCEPT !.nextCursor = StartCursor(fpa)], fpa)
    [] s.state = "suspendedYield" /\ req = "next" ->
         ResumeNext(s, fpa)
    [] OTHER ->
         Complete(s)

\* One request of the queue, as the async generator's resumption handles it.
HandleRequest(s, fpa) ==
  LET req == Head(s.queue) IN
  CASE s.state = "completed" ->
         [s EXCEPT !.out = Append(@, DoneOut(req)), !.queue = Tail(@)]
    [] s.state = "suspendedStart" /\ req = "next" ->
         IssueCall([s EXCEPT !.nextCursor = StartCursor(fpa)], fpa)
    [] s.state = "suspendedYield" /\ req = "next" ->
         ResumeNext(s, fpa)
    [] OTHER -> \* return() at a suspension point: no finally block, it ends
         Complete(s)

\* The generator runs until it waits for listFn or has no request left.
RECURSIVE Drain(_, _)
Drain(s, fpa) ==
  IF s.queue = <<>> \/ s.state = "awaiting"
  THEN s
  ELSE Drain(HandleRequest(s, fpa), fpa)

(***************************************************************************)
(* collectPaginatedAPI, helpers.ts 86-95: the for await loop.              *)
(***************************************************************************)
Pending == [t |-> "pending"]

\* Mutant: a failure ends the loop and the items gathered so far are returned.
RECURSIVE CollectSwallow(_, _)
CollectSwallow(c, answers) ==
  IF answers = <<>> \/ c.promise # Pending
  THEN c
  ELSE LET a == Head(answers) IN
       CollectSwallow(
         CASE a.t = "item" -> [c EXCEPT !.results = Append(@, a.v)]
           [] OTHER -> [c EXCEPT !.promise = [t |-> "resolved", v |-> c.results]],
         Tail(answers))

\* the loop's reaction to the answers its next() calls got
RECURSIVE Collect(_, _)
Collect(c, answers) ==
  IF answers = <<>> \/ c.promise # Pending
  THEN c
  ELSE LET a == Head(answers) IN
       Collect(
         CASE a.t = "item" -> [c EXCEPT !.results = Append(@, a.v)]
           [] a.t = "done" -> [c EXCEPT !.promise = [t |-> "resolved", v |-> c.results]]
           [] OTHER -> [c EXCEPT !.promise = [t |-> "rejected", error |-> a.error]],
         Tail(answers))

(***************************************************************************)
(* The state machine.                                                      *)
(***************************************************************************)
Local(i) ==
  [state |-> gen[i].state, nextCursor |-> gen[i].nextCursor, pos |-> gen[i].pos,
   response |-> response[i], queue |-> queue[i], calls |-> calls[i],
   out |-> out[i]]

\* Mutant: one response binding shared by every activation.
SetResponseShared(resp, i, r) == [j \in DOMAIN resp |-> r]

\* each activation has its own response (const, line 59)
SetResponse(resp, i, r) == [resp EXCEPT ![i] = r]

DoneCount(o) == Cardinality({k \in 1..Len(o) : o[k].t = "done"})

\* write activation i back after it ran to s
Commit(i, s) ==
  /\ Len(s.calls) <= MaxCalls
  /\ DoneCount(s.out) <= MaxDone
  /\ gen' = [gen EXCEPT ![i] = [state |-> s.state, nextCursor |-> s.nextCursor, pos |-> s.pos]]
  /\ response' = SetResponse(response, i, s.response)
  /\ queue' = [queue EXCEPT ![i] = s.queue]
  /\ calls' = [calls EXCEPT ![i] = s.calls]
  /\ out' = [out EXCEPT ![i] = s.out]
  /\ collected' =
       [collected EXCEPT ![i] =
          IF consumer[i] = "collect"
          THEN Collect(@, SubSeq(s.out, Len(out[i]) + 1, Len(s.out)))
          ELSE @]
  /\ UNCHANGED <<firstPageArgs, consumer, fnVars>>

Request(i, req) ==
  /\ Len(queue[i]) < MaxPending
  /\ Commit(i, Drain([Local(i) EXCEPT !.queue = Append(@, req)], firstPageArgs[i]))

\* the consumer calls iterator.next()
RequestNext(i) ==
  /\ consumer[i] = "manual"
  /\ Request(i, "next")
  /\ UNCHANGED replies

\* the consumer calls iterator.return() (a break out of for await)
RequestReturn(i) ==
  /\ consumer[i] = "manual"
  /\ Request(i, "return")
  /\ UNCHANGED replies

\* collectPaginatedAPI's loop asks for the next item once the last was handled
CollectNext(i) ==
  /\ consumer[i] = "collect"
  /\ collected[i].promise = Pending
  /\ queue[i] = <<>>
  /\ Request(i, "next")
  /\ UNCHANGED replies

ResponsesFor(i) == IF Cardinality(Seqs) = 1 THEN AllResponses ELSE FewResponses(i)
ErrorsFor(i) == IF Cardinality(Seqs) = 1 THEN Errors ELSE {"E1"}

\* listFn's promise resolves with a PaginatedList, one of R
ResolveWith(i, R) ==
  /\ gen[i].state = "awaiting"
  /\ \E r \in R :
       /\ replies' = [replies EXCEPT ![i] = Append(@, r)]
       /\ Commit(i, Drain([Local(i) EXCEPT !.response = r, !.pos = 1,
                                           !.state = "suspendedYield"],
                          firstPageArgs[i]))

Resolve(i) == ResolveWith(i, ResponsesFor(i))

\* listFn's promise rejects: the await throws, nothing catches it
Reject(i) ==
  /\ gen[i].state = "awaiting"
  /\ \E e \in ErrorsFor(i) :
       /\ replies' = [replies EXCEPT ![i] = Append(@, Rejected(e))]
       /\ Commit(i, Drain([Local(i) EXCEPT !.state = "completed",
                                           !.out = Append(@, ErrorOut(e)),
                                           !.queue = Tail(@)],
                          firstPageArgs[i]))

InitOver(S) ==
  /\ firstPageArgs \in [S -> FirstArgsChoices]
  /\ consumer \in [S -> {"manual", "collect"}]
  /\ gen = [i \in S |-> [state |-> "suspendedStart", nextCursor |-> Undefined, pos |-> 1]]
  /\ response = [i \in S |-> NoResponse]
  /\ queue = [i \in S |-> <<>>]
  /\ calls = [i \in S |-> <<>>]
  /\ replies = [i \in S |-> <<>>]
  /\ out = [i \in S |-> <<>>]
  /\ collected = [i \in S |-> [results |-> <<>>, promise |-> Pending]]

\* no helper function under test
FnIdle == op = "start" /\ arg = Undefined /\ ret = Undefined

Init == InitOver({1}) /\ FnIdle

Next ==
  \E i \in Seqs :
    \/ RequestNext(i)
    \/ RequestReturn(i)
    \/ CollectNext(i)
    \/ Resolve(i)
    \/ Reject(i)

Spec == Init /\ [][Next]_vars

\* several sequences created by separate iteratePaginatedAPI calls
InitMulti ==
  /\ InitOver({1, 2})
  /\ FnIdle
  /\ consumer[1] = "manual"
  /\ firstPageArgs[1] = [block_id |-> Str("b1")]
  /\ firstPageArgs[2] = [block_id |-> Str("b2"), page_size |-> Str("10"), start_cursor |-> Str("c0")]

SpecMulti == InitMulti /\ [][Next]_vars

\* A consumer that keeps consuming (for await without break, or next() after
\* next()) and a listFn whose promise is always settled in the end.
\* has_more is never read (lines 57-65): here it goes with the cursor.
LiveCursors == {Null, Str(""), Str("c1")}
LiveResponses == {Resolved(rs, nc, Truthy(nc)) : rs \in Pages, nc \in LiveCursors}

ResolveLive(i) == ResolveWith(i, LiveResponses)

Consumes(i) == RequestNext(i) \/ CollectNext(i)
Responds(i) == ResolveLive(i) \/ Reject(i)

NextLive ==
  \E i \in Seqs :
    \/ RequestNext(i)
    \/ CollectNext(i)
    \/ ResolveLive(i)
    \/ Reject(i)

SpecLive ==
  /\ Init
  /\ [][NextLive]_vars
  /\ WF_vars(Consumes(1))
  /\ WF_vars(Responds(1))

(***************************************************************************)
(* iterateDataSourceTemplates and collectDataSourceTemplates, helpers.ts   *)
(* 121-161, run beside iteratePaginatedAPI and collectPaginatedAPI:        *)
(* sequence 1 is the generic one, sequence 2 the one of the templates.     *)
(***************************************************************************)
\* ListDataSourceTemplatesResponse: the items are under templates
TemplatesResolved(ts, nc, hm) ==
  [t |-> "resolve", templates |-> ts, next_cursor |-> nc, has_more |-> hm]

\* the reply of listFn as listTemplates gives it
AsTemplates(r) ==
  IF r.t = "resolve" THEN TemplatesResolved(r.results, r.next_cursor, r.has_more) ELSE r

\* the scripted replies: every page, every cursor
ScriptedResponses == {Resolved(rs, nc, Truthy(nc)) : rs \in Pages, nc \in Cursors}

\* ListDataSourceTemplatesArgs, lines 99-103
TemplateArgsChoices ==
  { [data_source_id |-> Str("d1")],
    [data_source_id |-> Str("d1"), name |-> Str("n"), page_size |-> Str("10"),
     start_cursor |-> Str("c0")] }

\* Mutant: the first call starts from the beginning whatever args says.
TemplatesStartCursorIgnored(args) == Undefined

\* args.start_cursor, line 125
TemplatesStartCursor(args) ==
  IF "start_cursor" \in DOMAIN args THEN args.start_cursor ELSE Undefined

\* { ...args, start_cursor: nextCursor }, lines 128-131
ListTemplatesArgs(args, nc) ==
  [k \in DOMAIN args \cup {"start_cursor"} |->
     IF k = "start_cursor" THEN nc ELSE args[k]]

\* await client.dataSources.listTemplates(...)
IssueListTemplates(s, args) ==
  [s EXCEPT !.calls = Append(@, ListTemplatesArgs(args, s.nextCursor)),
            !.state = "awaiting"]

\* } while (nextCursor), line 134
TemplatesLoopTest(s, args) ==
  IF Truthy(s.nextCursor) THEN IssueListTemplates(s, args) ELSE Complete(s)

\* yield* response.templates resumed by a next(), lines 132-133
ResumeNextTemplate(s, args) ==
  IF s.pos <= Len(s.response.templates)
  THEN [s EXCEPT !.out = Append(@, ItemOut(s.response.templates[s.pos])),
                 !.pos = @ + 1,
                 !.queue = Tail(@)]
  ELSE TemplatesLoopTest([s EXCEPT !.nextCursor = s.response.next_cursor], args)

HandleTemplatesRequest(s, args) ==
  LET req == Head(s.queue) IN
  CASE s.state = "completed" ->
         [s EXCEPT !.out = Append(@, DoneOut(req)), !.queue = Tail(@)]
    [] s.state = "suspendedStart" /\ req = "next" ->
         IssueListTemplates([s EXCEPT !.nextCursor = TemplatesStartCursor(args)], args)
    [] s.state = "suspendedYield" /\ req = "next" ->
         ResumeNextTemplate(s, args)
    [] OTHER ->
         Complete(s)

RECURSIVE DrainTemplates(_, _)
DrainTemplates(s, args) ==
  IF s.queue = <<>> \/ s.state = "awaiting"
  THEN s
  ELSE DrainTemplates(HandleTemplatesRequest(s, args), args)

\* the for await loops of lines 91-93 and 157-159
Collected(i, s) ==
  IF consumer[i] = "collect"
  THEN Collect(collected[i], SubSeq(s.out, Len(out[i]) + 1, Len(s.out)))
  ELSE collected[i]

\* write both activations back after they ran to s1 and s2
CommitBoth(s1, s2) ==
  LET both == <<s1, s2>> IN
  /\ Len(s1.calls) <= MaxCalls
  /\ DoneCount(s1.out) <= MaxDone
  /\ gen' = [i \in {1, 2} |->
               [state |-> both[i].state, nextCursor |-> both[i].nextCursor, pos |-> both[i].pos]]
  /\ response' = [i \in {1, 2} |-> both[i].response]
  /\ queue' = [i \in {1, 2} |-> both[i].queue]
  /\ calls' = [i \in {1, 2} |-> both[i].calls]
  /\ out' = [i \in {1, 2} |-> both[i].out]
  /\ collected' = [i \in {1, 2} |-> Collected(i, both[i])]
  /\ UNCHANGED <<firstPageArgs, consumer, fnVars>>

\* the same request made of both iterators
RequestBoth(req) ==
  /\ Len(queue[1]) < MaxPending
  /\ CommitBoth(Drain([Local(1) EXCEPT !.queue = Append(@, req)], firstPageArgs[1]),
                DrainTemplates([Local(2) EXCEPT !.queue = Append(@, req)], firstPageArgs[2]))

RequestNextBoth ==
  /\ consumer[1] = "manual"
  /\ RequestBoth("next")
  /\ UNCHANGED replies

RequestReturnBoth ==
  /\ consumer[1] = "manual"
  /\ RequestBoth("return")
  /\ UNCHANGED replies

CollectNextBoth ==
  /\ consumer[1] = "collect"
  /\ collected[1].promise = Pending
  /\ queue[1] = <<>>
  /\ RequestBoth("next")
  /\ UNCHANGED replies

\* listFn and listTemplates resolve with the same scripted reply
ResolveBoth ==
  /\ gen[1].state = "awaiting"
  /\ gen[2].state = "awaiting"
  /\ \E r \in ScriptedResponses :
       /\ replies' = [replies EXCEPT ![1] = Append(@, r), ![2] = Append(@, AsTemplates(r))]
       /\ CommitBoth(Drain([Local(1) EXCEPT !.response = r, !.pos = 1,
                                            !.state = "suspendedYield"],
                           firstPageArgs[1]),
                     DrainTemplates([Local(2) EXCEPT !.response = AsTemplates(r), !.pos = 1,
                                                     !.state = "suspendedYield"],
                                    firstPageArgs[2]))

\* listFn and listTemplates reject with the same error
RejectBoth ==
  /\ gen[1].state = "awaiting"
  /\ gen[2].state = "awaiting"
  /\ \E e \in Errors :
       /\ replies' = [replies EXCEPT ![1] = Append(@, Rejected(e)), ![2] = Append(@, Rejected(e))]
       /\ CommitBoth(Drain([Local(1) EXCEPT !.state = "completed",
                                            !.out = Append(@, ErrorOut(e)),
                                            !.queue = Tail(@)],
                           firstPageArgs[1]),
                     DrainTemplates([Local(2) EXCEPT !.state = "completed",
                                                     !.out = Append(@, ErrorOut(e)),
                                                     !.queue = Tail(@)],
                                    firstPageArgs[2]))

InitTemplates ==
  /\ \E args \in TemplateArgsChoices : firstPageArgs = <<args, args>>
  /\ \E c \in {"manual", "collect"} : consumer = <<c, c>>
  /\ gen = [i \in {1, 2} |-> [state |-> "suspendedStart", nextCursor |-> Undefined, pos |-> 1]]
  /\ response = <<NoResponse, TemplatesResolved(<<>>, Undefined, FALSE)>>
  /\ queue = <<<<>>, <<>>>>
  /\ calls = <<<<>>, <<>>>>
  /\ replies = <<<<>>, <<>>>>
  /\ out = <<<<>>, <<>>>>
  /\ collected = [i \in {1, 2} |-> [results |-> <<>>, promise |-> Pending]]
  /\ FnIdle

NextTemplates ==
  \/ RequestNextBoth
  \/ RequestReturnBoth
  \/ CollectNextBoth
  \/ ResolveBoth
  \/ RejectBoth

SpecTemplates == InitTemplates /\ [][NextTemplates]_vars

(***************************************************************************)
(* Strings of the identifier normaliser: sequences of characters.          *)
(***************************************************************************)
Chars(cs) == [t |-> "string", v |-> cs]
Num(n) == [t |-> "number", v |-> n]
Obj == [t |-> "object"]
Bool(b) == [t |-> "boolean", v |-> b]

\* !x for the values the helpers are handed
IsFalsy(x) ==
  \/ x.t \in {"null", "undefined"}
  \/ x.t = "number" /\ x.v = 0
  \/ x.t = "string" /\ x.v = <<>>

Digits == {"0", "1", "2", "3", "4", "5", "6", "7", "8", "9"}
LowerHex == Digits \cup {"a", "b", "c", "d", "e", "f"}
\* [0-9a-f] under the i flag
IsHex(c) == c \in LowerHex \cup {"A", "B", "C", "D", "E", "F"}

UpperLetters == 
  <<"A", "B", "C", "D", "E", "F", "G", "H", "I", "J", "K", "L", "M", "N", "O", "P", "Q", "R", "S", "T", "U", "V", "W", "X", "Y", "Z">>
LowerLetters == 
  <<"a", "b", "c", "d", "e", "f", "g", "h", "i", "j", "k", "l", "m", "n", "o", "p", "q", "r", "s", "t", "u", "v", "w", "x", "y", "z">>

\* String.prototype.toLowerCase, character by character
ToLowerChar(c) ==
  IF \E k \in 1..Len(UpperLetters) : UpperLetters[k] = c
  THEN LowerLetters[CHOOSE k \in 1..Len(UpperLetters) : UpperLetters[k] = c]
  ELSE c
ToLowerCase(s) == [k \in 1..Len(s) |-> ToLowerChar(s[k])]

WhiteSpace == {" ", "\t", "\n"}

\* String.prototype.trim
Trim(s) ==
  LET keep == {k \in 1..Len(s) : s[k] \notin WhiteSpace} IN
  IF keep = {} THEN <<>>
  ELSE SubSeq(s, CHOOSE a \in keep : \A k \in keep : a <= k,
                 CHOOSE b \in keep : \A k \in keep : b >= k)

\* String.prototype.slice(from, to) with 0 <= from <= to
Slice(s, from, to) ==
  SubSeq(s, from + 1, IF to < Len(s) THEN to ELSE Len(s))

AllHex(s, a, b) == \A k \in a..b : IsHex(s[k])

\* the length of a compact id, {32} in the patterns
IdLen == 32

(***************************************************************************)
(* The regular expressions of extractNotionId, helpers.ts 298-326.         *)
(***************************************************************************)
\* Mutant: the pattern is not anchored; it is found anywhere in the string.
UuidRegexTestAnywhere(s) ==
  \E i \in 0..(Len(s) - 36) :
    \A k \in 1..36 : IF k \in {9, 14, 19, 24} THEN s[i + k] = "-" ELSE IsHex(s[i + k])

\* /^[0-9a-f]{8}-[0-9a-f]{4}-[0-9a-f]{4}-[0-9a-f]{4}-[0-9a-f]{12}$/i
UuidRegexTest(s) ==
  /\ Len(s) = 36
  /\ \A k \in 1..36 : IF k \in {9, 14, 19, 24} THEN s[k] = "-" ELSE IsHex(s[k])

\* /^[0-9a-f]{32}$/i
CompactUuidRegexTest(s) == Len(s) = IdLen /\ AllHex(s, 1, IdLen)

NoMatch == [found |-> FALSE, group |-> <<>>]
Match(g) == [found |-> TRUE, group |-> g]

PathStop == {"/", "?", "#"}

\* "/" at i, [^/?#]* up to the "-" at j, 32 hex digits, then [/?#] or the end
PathAt(s, i, j) ==
  /\ s[i] = "/"
  /\ s[j] = "-"
  /\ \A k \in (i + 1)..(j - 1) : s[k] \notin PathStop
  /\ j + IdLen <= Len(s)
  /\ AllHex(s, j + 1, j + IdLen)
  /\ (j + IdLen = Len(s) \/ s[j + IdLen + 1] \in PathStop)

\* trimmed.match(/\/[^/?#]*-([0-9a-f]{32})(?:[/?#]|$)/i): the leftmost start,
\* and from it the longest [^/?#]* (greedy)
PathMatch(s) ==
  LET starts == {i \in 1..Len(s) : \E j \in (i + 1)..Len(s) : PathAt(s, i, j)} IN
  IF starts = {} THEN NoMatch
  ELSE LET i == CHOOSE a \in starts : \A b \in starts : a <= b
           js == {j \in (i + 1)..Len(s) : PathAt(s, i, j)}
           j == CHOOSE a \in js : \A b \in js : a >= b
       IN Match(SubSeq(s, j + 1, j + IdLen))

QueryNames == <<<<"p">>, <<"p", "a", "g", "e", "_", "i", "d">>, 
  <<"d", "a", "t", "a", "b", "a", "s", "e", "_", "i", "d">>>>

\* [?&] at i, the parameter name (i flag), "=", 32 hex digits
QueryAt(s, i, name) ==
  LET e == i + Len(name) + 1 IN
  /\ s[i] \in {"?", "&"}
  /\ e + IdLen <= Len(s)
  /\ ToLowerCase(SubSeq(s, i + 1, e - 1)) = name
  /\ s[e] = "="
  /\ AllHex(s, e + 1, e + IdLen)

\* trimmed.match(/[?&](?:p|page_id|database_id)=([0-9a-f]{32})/i)
QueryMatch(s) ==
  LET hits == {i \in 1..Len(s) : \E n \in 1..Len(QueryNames) : QueryAt(s, i, QueryNames[n])} IN
  IF hits = {} THEN NoMatch
  ELSE LET i == CHOOSE a \in hits : \A b \in hits : a <= b
           ns == {n \in 1..Len(QueryNames) : QueryAt(s, i, QueryNames[n])}
           n == CHOOSE a \in ns : \A b \in ns : a <= b
           e == i + Len(QueryNames[n]) + 1
       IN Match(SubSeq(s, e + 1, e + IdLen))

\* trimmed.match(/([0-9a-f]{32})/i): the leftmost 32 hex digits in a row
AnyMatch(s) ==
  LET hits == {k \in 1..(Len(s) - IdLen + 1) : AllHex(s, k, k + IdLen - 1)} IN
  IF hits = {} THEN NoMatch
  ELSE LET k == CHOOSE a \in hits : \A b \in hits : a <= b
       IN Match(SubSeq(s, k, k + IdLen - 1))

(***************************************************************************)
(* formatUuid and extractNotionId, helpers.ts 290-345.                     *)
(***************************************************************************)
\* Mutant: the hyphens are inserted without lower-casing.
FormatUuidKeepCase(compactId) ==
  Slice(compactId, 0, 8) \o <<"-">> \o Slice(compactId, 8, 12) \o <<"-">>
    \o Slice(compactId, 12, 16) \o <<"-">> \o Slice(compactId, 16, 20) \o <<"-">>
    \o Slice(compactId, 20, 32)

\* Mutant: the second group is cut one character late.
FormatUuidShifted(compactId) ==
  LET clean == ToLowerCase(compactId) IN
  Slice(clean, 0, 8) \o <<"-">> \o Slice(clean, 8, 13) \o <<"-">>
    \o Slice(clean, 13, 16) \o <<"-">> \o Slice(clean, 16, 20) \o <<"-">>
    \o Slice(clean, 20, 32)

FormatUuid(compactId) ==
  LET clean == ToLowerCase(compactId) IN
  Slice(clean, 0, 8) \o <<"-">> \o Slice(clean, 8, 12) \o <<"-">>
    \o Slice(clean, 12, 16) \o <<"-">> \o Slice(clean, 16, 20) \o <<"-">>
    \o Slice(clean, 20, 32)

\* a TypeError thrown by a method call on a value that has no such method
Thrown == [t |-> "throw", error |-> "TypeError"]

\* the searches of a trimmed string, lines 297-331
ExtractFromString(trimmed) ==
  IF UuidRegexTest(trimmed) THEN Chars(ToLowerCase(trimmed))
  ELSE IF CompactUuidRegexTest(trimmed) THEN Chars(FormatUuid(trimmed))
  ELSE IF PathMatch(trimmed).found /\ PathMatch(trimmed).group # <<>>
       THEN Chars(FormatUuid(PathMatch(trimmed).group))
  ELSE IF QueryMatch(trimmed).found /\ QueryMatch(trimmed).group # <<>>
       THEN Chars(FormatUuid(QueryMatch(trimmed).group))
  ELSE IF AnyMatch(trimmed).found /\ AnyMatch(trimmed).group # <<>>
       THEN Chars(FormatUuid(AnyMatch(trimmed).group))
  ELSE Null

\* Mutant: the guard of line 291 tests only !urlOrId; trim() of a value that
\* is no string throws.
ExtractNotionIdNoTypeof(urlOrId) ==
  IF IsFalsy(urlOrId) THEN Null
  ELSE IF urlOrId.t # "string" THEN Thrown
  ELSE ExtractFromString(Trim(urlOrId.v))

\* Mutant: a string in which nothing is found is handed back as it is.
ExtractNotionIdEcho(urlOrId) ==
  IF IsFalsy(urlOrId) \/ urlOrId.t # "string" THEN Null
  ELSE IF ExtractFromString(Trim(urlOrId.v)) = Null THEN urlOrId
  ELSE ExtractFromString(Trim(urlOrId.v))

ExtractNotionId(urlOrId) ==
  IF IsFalsy(urlOrId) \/ urlOrId.t # "string" THEN Null
  ELSE ExtractFromString(Trim(urlOrId.v))

(***************************************************************************)
(* extractDatabaseId, extractPageId, extractBlockId and isValidNotionId,   *)
(* helpers.ts 351-413.                                                     *)
(***************************************************************************)
ExtractDatabaseId(databaseUrl) == ExtractNotionId(databaseUrl)

ExtractPageId(pageUrl) == ExtractNotionId(pageUrl)

BlockWord == <<"b", "l", "o", "c", "k", "-">>

\* "#" at i, then with the word "block-" (i flag) or without it, 32 hex digits
BlockAt(s, i, word) ==
  LET e == i + Len(word) IN
  /\ s[i] = "#"
  /\ e + IdLen <= Len(s)
  /\ ToLowerCase(SubSeq(s, i + 1, e)) = word
  /\ AllHex(s, e + 1, e + IdLen)

\* urlWithBlock.match(/#(?:block-)?([0-9a-f]{32})/i): the leftmost "#" that
\* matches, the optional group tried first
BlockMatch(s) ==
  LET hits == {i \in 1..Len(s) : BlockAt(s, i, BlockWord) \/ BlockAt(s, i, <<>>)} IN
  IF hits = {} THEN NoMatch
  ELSE LET i == CHOOSE a \in hits : \A b \in hits : a <= b
           e == IF BlockAt(s, i, BlockWord) THEN i + Len(BlockWord) ELSE i
       IN Match(SubSeq(s, e + 1, e + IdLen))

\* Mutant: the fragment search is replaced by the searches of extractNotionId.
ExtractBlockIdAnywhere(urlWithBlock) == ExtractNotionId(urlWithBlock)

ExtractBlockId(urlWithBlock) ==
  IF IsFalsy(urlWithBlock) \/ urlWithBlock.t # "string" THEN Null
  ELSE IF BlockMatch(urlWithBlock.v).found /\ BlockMatch(urlWithBlock.v).group # <<>>
       THEN Chars(FormatUuid(BlockMatch(urlWithBlock.v).group))
  ELSE Null

\* Mutant: the regexes are tested on the value as given, untrimmed.
IsValidNotionIdNoTrim(id) ==
  IF IsFalsy(id) \/ id.t # "string" THEN FALSE
  ELSE UuidRegexTest(id.v) \/ CompactUuidRegexTest(id.v)

IsValidNotionId(id) ==
  IF IsFalsy(id) \/ id.t # "string" THEN FALSE
  ELSE LET trimmed == Trim(id.v) IN
       IF UuidRegexTest(trimmed) THEN TRUE ELSE CompactUuidRegexTest(trimmed)

(***************************************************************************)
(* The arguments the identifier helpers are tried on.                      *)
(***************************************************************************)
\* white space put before and after an argument
MaxPad == 1

HexA == 
  <<"1", "a", "2", "B", "3", "c", "4", "D", "5", "e", "6", "F", "7", "a", "8", "b", "9", "C", "0", "d", "1", "E", "2", "f", "3", "A", "4", "b", "5", "C", "6", "d">>
HexB == 
  <<"f", "f", "e", "e", "d", "d", "c", "c", "b", "b", "a", "a", "9", "9", "8", "8", "7", "7", "6", "6", "5", "5", "4", "4", "3", "3", "2", "2", "1", "1", "0", "0">>

\* the malformed ids of the security tests
InvalidId == <<"i", "n", "v", "a", "l", "i", "d", "-", "i", "d">>
NotAValidId == <<"n", "o", "t", "-", "a", "-", "v", "a", "l", "i", "d", "-", "i", "d">>

\* the 8-4-4-4-12 form of 32 characters, case kept
Hyphenated(h) ==
  SubSeq(h, 1, 8) \o <<"-">> \o SubSeq(h, 9, 12) \o <<"-">> \o SubSeq(h, 13, 16)
    \o <<"-">> \o SubSeq(h, 17, 20) \o <<"-">> \o SubSeq(h, 21, 32)

\* what stands where an id would: ids, hex runs too long or too short, the
\* hyphenated form, a word
IdForms ==
  { HexA, HexB, ToLowerCase(HexA), HexA \o <<"0">>, SubSeq(HexA, 1, IdLen - 1),
    Hyphenated(HexA), Hyphenated(ToLowerCase(HexA)), InvalidId, NotAValidId, <<>> }

SlugUrl == <<"h", "t", "t", "p", "s", ":", "/", "/", "n", "o", "t", "i", "o", "n", ".", "s", "o", "/", "w", "s", "/", "M", "y", "-", "D", "B", "-">>
PlainUrl == <<"h", "t", "t", "p", "s", ":", "/", "/", "n", "o", "t", "i", "o", "n", ".", "s", "o", "/", "w", "s", "/">>

UrlPrefixes ==
  { <<>>, SlugUrl, PlainUrl, <<"/", "D", "B", "-">>, <<"/">>, <<"i", "d", ":">> }

ParamP == <<"?", "p", "=">>

UrlSuffixes ==
  { <<>>, <<"?", "v", "=">> \o HexB, ParamP \o HexB, <<"?", "v", "=", "1", "&", "P", "a", "g", "e", "_", "I", "D", "=">> \o HexB, <<"&", "d", "a", "t", "a", "b", "a", "s", "e", "_", "i", "d", "=">> \o HexB,
    <<"#", "b", "l", "o", "c", "k", "-">> \o HexB, <<"#">> \o HexB, <<"/", "s", "u", "b">> }

Pad(n) == [k \in 1..n |-> " "]

IdStrings ==
  { Pad(l) \o pre \o id \o suf \o Pad(r) :
      l \in 0..MaxPad, r \in 0..MaxPad,
      pre \in UrlPrefixes, id \in IdForms, suf \in UrlSuffixes }

\* more strings of 32 hex digits: capitals only, digits only
HexC ==
  <<"A", "B", "C", "D", "E", "F", "A", "B", "C", "D", "E", "F", "A", "B", "C", "D", "E", "F", "A", "B", "C", "D", "E", "F", "A", "B", "C", "D", "E", "F", "A", "B">>
HexD ==
  <<"0", "1", "2", "3", "4", "5", "6", "7", "8", "9", "0", "1", "2", "3", "4", "5", "6", "7", "8", "9", "0", "1", "2", "3", "4", "5", "6", "7", "8", "9", "0", "1">>

IdArgs ==
  {Chars(s) : s \in IdStrings}
    \cup {Null, Undefined, Num(0), Num(42), Obj, Chars(<<"\t", "\n">>)}
    \cup {Chars(HexC), Chars(HexD), Chars(Hyphenated(HexC))}

(***************************************************************************)
(* The identifier helpers applied to one argument.                         *)
(***************************************************************************)
CallExtractNotionId ==
  /\ op = "start"
  /\ op' = "extractNotionId"
  /\ ret' = ExtractNotionId(arg)
  /\ UNCHANGED <<arg, pageVars>>

\* the result of extractNotionId handed to extractNotionId again
CallExtractNotionIdAgain ==
  /\ op = "extractNotionId"
  /\ ret # Null
  /\ op' = "extractNotionId again"
  /\ arg' = ret
  /\ ret' = ExtractNotionId(ret)
  /\ UNCHANGED pageVars

CallExtractDatabaseId ==
  /\ op = "start"
  /\ op' = "extractDatabaseId"
  /\ ret' = ExtractDatabaseId(arg)
  /\ UNCHANGED <<arg, pageVars>>

CallExtractPageId ==
  /\ op = "start"
  /\ op' = "extractPageId"
  /\ ret' = ExtractPageId(arg)
  /\ UNCHANGED <<arg, pageVars>>

CallExtractBlockId ==
  /\ op = "start"
  /\ op' = "extractBlockId"
  /\ ret' = ExtractBlockId(arg)
  /\ UNCHANGED <<arg, pageVars>>

CallIsValidNotionId ==
  /\ op = "start"
  /\ op' = "isValidNotionId"
  /\ ret' = Bool(IsValidNotionId(arg))
  /\ UNCHANGED <<arg, pageVars>>

\* extractNotionId applied to what isValidNotionId called valid
CallExtractNotionIdOfValid ==
  /\ op = "isValidNotionId"
  /\ ret = Bool(TRUE)
  /\ op' = "extractNotionId of valid"
  /\ ret' = ExtractNotionId(arg)
  /\ UNCHANGED <<arg, pageVars>>

\* formatUuid applied to a string of 32 hex digits
CallFormatUuid ==
  /\ op = "start"
  /\ arg.t = "string"
  /\ CompactUuidRegexTest(arg.v)
  /\ op' = "formatUuid"
  /\ ret' = Chars(FormatUuid(arg.v))
  /\ UNCHANGED <<arg, pageVars>>

InitId ==
  /\ InitOver({1})
  /\ consumer[1] = "manual"
  /\ firstPageArgs[1] = [block_id |-> Str("b1")]
  /\ op = "start"
  /\ arg \in IdArgs
  /\ ret = Undefined

NextId ==
  \/ CallExtractNotionId
  \/ CallExtractNotionIdAgain
  \/ CallExtractDatabaseId
  \/ CallExtractPageId
  \/ CallExtractBlockId
  \/ CallIsValidNotionId
  \/ CallExtractNotionIdOfValid
  \/ CallFormatUuid

SpecId == InitId /\ [][NextId]_vars

(***************************************************************************)
(* Rich text, helpers.ts 428-497.  A span is a record of the fields the    *)
(* renderers read; a field that is absent reads as undefined.              *)
(***************************************************************************)
Arr(items) == [t |-> "array", v |-> items]

\* Array.isArray
IsArray(x) == x.t = "array"

\* Array.prototype.join("") of an array of strings
RECURSIVE Join(_)
Join(strs) == IF strs = <<>> THEN <<>> ELSE Head(strs) \o Join(Tail(strs))

\* item.plain_text || ""
PlainTextOf(item) == IF IsFalsy(item.plain_text) THEN <<>> ELSE item.plain_text.v

\* Mutant: the guard of line 431 is missing; map of null or undefined throws.
RichTextToPlainTextNoGuard(richText) ==
  IF richText.t \in {"null", "undefined"} THEN Thrown
  ELSE IF ~IsArray(richText) THEN Chars(<<>>)
  ELSE Chars(Join([k \in 1..Len(richText.v) |-> PlainTextOf(richText.v[k])]))

RichTextToPlainText(richText) ==
  IF IsFalsy(richText) \/ ~IsArray(richText) THEN Chars(<<>>)
  ELSE Chars(Join([k \in 1..Len(richText.v) |-> PlainTextOf(richText.v[k])]))

\* the character U+0060 of line 485, which a TLA+ string cannot hold
Backtick == "GRAVE"

\* the template literals of lines 472-485: text between two markers
Wrap(l, text, r) == l \o text \o r

\* Mutant: code is applied first, inside the other markers.
AnnotateCodeFirst(text, a) ==
  LET coded == IF a.code THEN Wrap(<<Backtick>>, text, <<Backtick>>) ELSE text
      bold == IF a.bold THEN Wrap(<<"*", "*">>, coded, <<"*", "*">>) ELSE coded
      italic == IF a.italic THEN Wrap(<<"*">>, bold, <<"*">>) ELSE bold
      strike == IF a.strikethrough THEN Wrap(<<"~", "~">>, italic, <<"~", "~">>) ELSE italic
  IN IF a.underline THEN Wrap(<<"<", "u", ">">>, strike, <<"<", "/", "u", ">">>) ELSE strike

\* lines 471-486, a == item.annotations
Annotate(text, a) ==
  LET bold == IF a.bold THEN Wrap(<<"*", "*">>, text, <<"*", "*">>) ELSE text
      italic == IF a.italic THEN Wrap(<<"*">>, bold, <<"*">>) ELSE bold
      strike == IF a.strikethrough THEN Wrap(<<"~", "~">>, italic, <<"~", "~">>) ELSE italic
      under == IF a.underline THEN Wrap(<<"<", "u", ">">>, strike, <<"<", "/", "u", ">">>) ELSE strike
  IN IF a.code THEN Wrap(<<Backtick>>, under, <<Backtick>>) ELSE under

\* item.text?.link
LinkOf(item) == IF item.text.t \in {"null", "undefined"} THEN Undefined ELSE item.text.link

\* Mutant: a mention gets "@" put before its plain_text.
MentionToMarkdownAt(text) == <<"@">> \o text

\* line 466
MentionToMarkdown(text) == text

\* lines 470-494: a span that is neither an equation nor a mention
FormatSpan(item, text) ==
  LET annotated == IF item.annotations.t \in {"null", "undefined"} THEN text
                   ELSE Annotate(text, item.annotations)
  IN IF item.type = "text" /\ ~IsFalsy(LinkOf(item))
     THEN <<"[">> \o annotated \o <<"]", "(">> \o LinkOf(item).url \o <<")">>
     ELSE annotated

\* Mutant: equations and mentions are formatted like any other span.
SpanToMarkdownAllAlike(item) == FormatSpan(item, PlainTextOf(item))

\* the callback of lines 459-495
SpanToMarkdown(item) ==
  LET text == PlainTextOf(item) IN
  IF item.type = "equation" THEN <<"$">> \o text \o <<"$">>
  ELSE IF item.type = "mention" THEN MentionToMarkdown(text)
  ELSE FormatSpan(item, text)

RichTextToMarkdown(richText) ==
  IF IsFalsy(richText) \/ ~IsArray(richText) THEN Chars(<<>>)
  ELSE Chars(Join([k \in 1..Len(richText.v) |-> SpanToMarkdown(richText.v[k])]))

(***************************************************************************)
(* The rich text the renderers are tried on.                               *)
(***************************************************************************)
\* spans in an array of more than one span
MaxSpans == 2

SpanTypes == {"text", "equation", "mention", "unknown"}

PlainTexts == {Undefined, Chars(<<>>), Chars(<<"x">>), Chars(<<"@", "J">>)}

Annotations ==
  [t : {"object"}, bold : BOOLEAN, italic : BOOLEAN, strikethrough : BOOLEAN,
   underline : BOOLEAN, code : BOOLEAN]

NoAnnotations ==
  [t |-> "object", bold |-> FALSE, italic |-> FALSE, strikethrough |-> FALSE,
   underline |-> FALSE, code |-> FALSE]

Url == <<"u", ".", "s", "o">>

TextFields ==
  { Undefined, [t |-> "object", link |-> Null],
    [t |-> "object", link |-> [t |-> "object", url |-> Url]] }

Span(type, plain, annotations, text) ==
  [type |-> type, plain_text |-> plain, annotations |-> annotations, text |-> text]

Spans ==
  { Span(ty, pt, an, tx) : ty \in SpanTypes, pt \in PlainTexts,
      an \in Annotations \cup {Undefined}, tx \in TextFields }

\* the spans that longer arrays are made of
FewSpans ==
  { Span("text", Chars(<<"x">>), [NoAnnotations EXCEPT !.bold = TRUE], [t |-> "object", link |-> Null]),
    Span("text", Chars(<<"y">>), Undefined, [t |-> "object", link |-> [t |-> "object", url |-> Url]]),
    Span("text", Undefined, [NoAnnotations EXCEPT !.code = TRUE], Undefined),
    Span("equation", Chars(<<"x">>), [NoAnnotations EXCEPT !.bold = TRUE, !.code = TRUE], Undefined),
    Span("mention", Chars(<<"@", "J">>), [NoAnnotations EXCEPT !.italic = TRUE], [t |-> "object", link |-> [t |-> "object", url |-> Url]]),
    Span("unknown", Chars(<<"y">>), [NoAnnotations EXCEPT !.underline = TRUE], [t |-> "object", link |-> [t |-> "object", url |-> Url]]) }

RichTexts ==
  {<<>>} \cup {<<sp>> : sp \in Spans}
    \cup UNION {[1..n -> FewSpans] : n \in 2..MaxSpans}

RichTextArgs ==
  {Arr(rt) : rt \in RichTexts} \cup {Null, Undefined, Obj, Num(0), Num(42), Chars(<<"x">>)}

CallRichTextToPlainText ==
  /\ op = "start"
  /\ op' = "richTextToPlainText"
  /\ ret' = RichTextToPlainText(arg)
  /\ UNCHANGED <<arg, pageVars>>

CallRichTextToMarkdown ==
  /\ op = "start"
  /\ op' = "richTextToMarkdown"
  /\ ret' = RichTextToMarkdown(arg)
  /\ UNCHANGED <<arg, pageVars>>

InitText ==
  /\ InitOver({1})
  /\ consumer[1] = "manual"
  /\ firstPageArgs[1] = [block_id |-> Str("b1")]
  /\ op = "start"
  /\ arg \in RichTextArgs
  /\ ret = Undefined

NextText ==
  \/ CallRichTextToPlainText
  \/ CallRichTextToMarkdown

SpecText == InitText /\ [][NextText]_vars

(***************************************************************************)
(* Object responses, helpers.ts 176-242.  A response is a function from    *)
(* the keys it has to their values; "k in response" is k \in DOMAIN.       *)
(***************************************************************************)
\* response.object === kind
ObjectIs(objectResponse, kind) == "object" \in DOMAIN objectResponse /\ objectResponse.object = kind

\* Mutant: the object field is not looked at.
IsFullBlockNoObject(objectResponse) == "type" \in DOMAIN objectResponse

IsFullBlock(objectResponse) == ObjectIs(objectResponse, "block") /\ "type" \in DOMAIN objectResponse

\* Mutant: the url key is not looked for.
IsFullPageNoUrl(objectResponse) == ObjectIs(objectResponse, "page")

IsFullPage(objectResponse) == ObjectIs(objectResponse, "page") /\ "url" \in DOMAIN objectResponse

IsFullDataSource(objectResponse) == ObjectIs(objectResponse, "data_source")

IsFullDatabase(objectResponse) == ObjectIs(objectResponse, "database")

IsFullPageOrDataSource(objectResponse) ==
  IF ObjectIs(objectResponse, "data_source") THEN IsFullDataSource(objectResponse)
  ELSE IsFullPage(objectResponse)

IsFullUser(objectResponse) == "type" \in DOMAIN objectResponse

IsFullComment(objectResponse) == "created_by" \in DOMAIN objectResponse

Predicates ==
  { "isFullBlock", "isFullPage", "isFullDataSource", "isFullDatabase",
    "isFullPageOrDataSource", "isFullUser", "isFullComment" }

\* the predicate called f
IsFull(f, objectResponse) ==
  CASE f = "isFullBlock" -> IsFullBlock(objectResponse)
    [] f = "isFullPage" -> IsFullPage(objectResponse)
    [] f = "isFullDataSource" -> IsFullDataSource(objectResponse)
    [] f = "isFullDatabase" -> IsFullDatabase(objectResponse)
    [] f = "isFullPageOrDataSource" -> IsFullPageOrDataSource(objectResponse)
    [] f = "isFullUser" -> IsFullUser(objectResponse)
    [] f = "isFullComment" -> IsFullComment(objectResponse)

\* delete response[key]
Delete(objectResponse, key) == [k \in DOMAIN objectResponse \ {key} |-> objectResponse[k]]

(***************************************************************************)
(* Page properties, helpers.ts 512-614.  The properties of a page are an   *)
(* object whose keys are kept in insertion order: keys[k] has vals[k].     *)
(***************************************************************************)
PropertyMap(keys, vals) == [t |-> "object", keys |-> keys, vals |-> vals]

\* properties[propertyName]
Lookup(properties, propertyName) ==
  IF \E k \in 1..Len(properties.keys) : properties.keys[k] = propertyName
  THEN properties.vals[CHOOSE k \in 1..Len(properties.keys) : properties.keys[k] = propertyName]
  ELSE Undefined

\* page.properties
PropertiesOf(page) == IF "properties" \in DOMAIN page THEN page.properties ELSE Undefined

\* the kinds whose case returns property[kind] as it is
RawKinds ==
  { "number", "date", "people", "files", "checkbox", "url", "email", "phone_number",
    "formula", "relation", "rollup", "created_time", "created_by", "last_edited_time",
    "last_edited_by", "unique_id", "verification", "button" }

\* x?.name
OptionalName(x) == IF x.t \in {"null", "undefined"} THEN Undefined ELSE x.name

\* Mutant: the title case hands back the span array itself.
PropertyValueRawTitle(property) ==
  IF "type" \notin DOMAIN property THEN Null
  ELSE IF property.type \notin DOMAIN property THEN Null
  ELSE IF property.type = "rich_text" THEN RichTextToPlainText(property[property.type])
  ELSE IF property.type \in {"select", "status"} THEN OptionalName(property[property.type])
  ELSE IF property.type = "multi_select"
       THEN Arr([k \in 1..Len(property.multi_select.v) |-> property.multi_select.v[k].name])
  ELSE IF property.type \in RawKinds \cup {"title"} THEN property[property.type]
  ELSE Null

\* the switch of lines 560-613
PropertyValue(property) ==
  IF "type" \notin DOMAIN property THEN Null
  ELSE IF property.type \in {"title", "rich_text"}
       THEN IF property.type \in DOMAIN property
            THEN RichTextToPlainText(property[property.type]) ELSE Null
  ELSE IF property.type \in {"select", "status"}
       THEN IF property.type \in DOMAIN property
            THEN OptionalName(property[property.type]) ELSE Null
  ELSE IF property.type = "multi_select"
       THEN IF "multi_select" \in DOMAIN property
            THEN Arr([k \in 1..Len(property.multi_select.v) |-> property.multi_select.v[k].name])
            ELSE Null
  ELSE IF property.type \in RawKinds
       THEN IF property.type \in DOMAIN property THEN property[property.type] ELSE Null
  ELSE Null

GetPageProperty(page, propertyName) ==
  IF ~IsFullPage(page) \/ IsFalsy(PropertiesOf(page)) THEN Null
  ELSE LET property == Lookup(page.properties, propertyName) IN
       IF property = Undefined THEN Null ELSE PropertyValue(property)

\* the loop of lines 519-523 from the k-th value on
RECURSIVE FirstTitle(_, _)
FirstTitle(values, k) ==
  IF k > Len(values) THEN Chars(<<>>)
  ELSE IF "type" \in DOMAIN values[k] /\ values[k].type = "title" /\ "title" \in DOMAIN values[k]
       THEN RichTextToPlainText(values[k].title)
  ELSE FirstTitle(values, k + 1)

GetPageTitle(page) ==
  IF ~IsFullPage(page) THEN Chars(<<>>)
  \* Object.values of undefined or null throws a TypeError
  ELSE IF PropertiesOf(page).t \in {"null", "undefined"} THEN Thrown
  ELSE FirstTitle(page.properties.vals, 1)

(***************************************************************************)
(* getBlockPlainText, getPagePropertyNames and getPagePropertiesAsObject,  *)
(* helpers.ts 629-733.                                                     *)
(***************************************************************************)
\* the cases of the switch of lines 638-676
AllowList ==
  { "paragraph", "heading_1", "heading_2", "heading_3", "bulleted_list_item",
    "numbered_list_item", "toggle", "to_do", "quote", "callout", "code" }

\* block[type].rich_text; reading a field of null or undefined throws
RichTextUnder(payload) ==
  IF payload.t \in {"null", "undefined"} THEN Thrown
  ELSE IF "rich_text" \in DOMAIN payload THEN payload.rich_text
  ELSE Undefined

\* Mutant: every type with a payload under its key is rendered.
GetBlockPlainTextAnyType(block) ==
  IF ~IsFullBlock(block) THEN Chars(<<>>)
  ELSE IF block.type \notin DOMAIN block THEN Chars(<<>>)
  ELSE IF RichTextUnder(block[block.type]) = Thrown THEN Thrown
  ELSE RichTextToPlainText(RichTextUnder(block[block.type]))

GetBlockPlainText(block) ==
  IF ~IsFullBlock(block) THEN Chars(<<>>)
  ELSE IF block.type \notin AllowList THEN Chars(<<>>)
  ELSE IF block.type \notin DOMAIN block THEN Chars(<<>>)
  ELSE IF RichTextUnder(block[block.type]) = Thrown THEN Thrown
  ELSE RichTextToPlainText(RichTextUnder(block[block.type]))

\* Mutant: the keys come back in reverse order.
GetPagePropertyNamesReversed(page) ==
  IF ~IsFullPage(page) \/ IsFalsy(PropertiesOf(page)) THEN Arr(<<>>)
  ELSE Arr([k \in 1..Len(page.properties.keys) |->
              page.properties.keys[Len(page.properties.keys) + 1 - k]])

\* Object.keys(page.properties)
GetPagePropertyNames(page) ==
  IF ~IsFullPage(page) \/ IsFalsy(PropertiesOf(page)) THEN Arr(<<>>)
  ELSE Arr(page.properties.keys)

\* result[propertyName] = getPageProperty(page, propertyName), key by key
GetPagePropertiesAsObject(page) ==
  IF ~IsFullPage(page) \/ IsFalsy(PropertiesOf(page)) THEN PropertyMap(<<>>, <<>>)
  ELSE PropertyMap(page.properties.keys,
         [k \in 1..Len(page.properties.keys) |-> GetPageProperty(page, page.properties.keys[k])])

(***************************************************************************)
(* The responses and pages the predicates and extractors are tried on.     *)
(***************************************************************************)
\* properties in a properties object of more than one property
MaxProps == 2

ObjectKinds == {"block", "page", "data_source", "database", "user", "comment", "list"}

\* the keys the predicates look for
ShapeKeys == {"type", "url", "created_by"}

SomeValue == Chars(<<"v">>)

\* a type tag that no switch knows
OtherType == "unsupported"

ResponseOf(kind, keys) ==
  [k \in {"object", "id"} \cup keys |->
     IF k = "object" THEN kind ELSE IF k = "type" THEN OtherType ELSE SomeValue]

Responses ==
  {ResponseOf(kind, keys) : kind \in ObjectKinds, keys \in SUBSET ShapeKeys}
    \cup {[k \in keys |-> IF k = "type" THEN OtherType ELSE SomeValue] : keys \in SUBSET ShapeKeys}

Property(type, payload) ==
  [k \in {"id", "type", type} |-> IF k = "id" THEN SomeValue ELSE IF k = "type" THEN type ELSE payload]

PropertyNoPayload(type) == [id |-> SomeValue, type |-> type]

Payloads(kind) ==
  IF kind = "number" THEN {Num(42), Num(0), Null}
  ELSE IF kind = "checkbox" THEN {Bool(TRUE), Bool(FALSE)}
  ELSE {[t |-> "object", of |-> kind], Null}

SelectOption(name) == [t |-> "object", id |-> SomeValue, name |-> Chars(name)]

TextSpan(plain) == Span("text", Chars(plain), NoAnnotations, [t |-> "object", link |-> Null])

TitleTexts == {<<>>, <<TextSpan(<<"x">>)>>, <<TextSpan(<<"x">>), TextSpan(<<"y">>)>>}

NormalizedKinds == {"title", "rich_text", "select", "status", "multi_select"}

Properties ==
  UNION {{Property(kind, v) : v \in Payloads(kind)} : kind \in RawKinds \cup {"future_kind"}}
    \cup {PropertyNoPayload(kind) : kind \in RawKinds \cup NormalizedKinds \cup {"future_kind"}}
    \cup {Property(kind, Arr(rt)) : kind \in {"title", "rich_text"}, rt \in TitleTexts}
    \cup {Property(kind, v) : kind \in {"select", "status"}, v \in {SelectOption(<<"A">>), Null}}
    \cup {Property("multi_select", Arr(os)) :
            os \in {<<>>, <<SelectOption(<<"T", "1">>), SelectOption(<<"T", "2">>)>>}}
    \cup {[id |-> SomeValue]}

\* the properties that objects of several properties are made of
FewProperties ==
  { Property("title", Arr(<<TextSpan(<<"x">>)>>)), Property("title", Arr(<<TextSpan(<<"y">>)>>)),
    Property("rich_text", Arr(<<TextSpan(<<"z">>)>>)), Property("select", Null),
    Property("number", Num(42)) }

PropertyNames == <<"Name", "Status", "Tags", "Count">>

PropertyMaps ==
  {PropertyMap(<<>>, <<>>)}
    \cup {PropertyMap(<<PropertyNames[1]>>, <<pr>>) : pr \in Properties}
    \cup UNION {{PropertyMap(SubSeq(PropertyNames, 1, n), vals) : vals \in [1..n -> FewProperties]} :
                 n \in 2..MaxProps}

PageOf(keys, properties) ==
  [k \in {"object", "id", "properties"} \cup keys |->
     IF k = "object" THEN "page" ELSE IF k = "properties" THEN properties ELSE SomeValue]

PageObjects ==
  {PageOf({"url"}, pm) : pm \in PropertyMaps \cup {Null}}
    \cup {PageOf({}, PropertyMap(<<PropertyNames[1]>>, <<pr>>)) : pr \in FewProperties}
    \cup {[PageOf({"url"}, PropertyMap(<<PropertyNames[1]>>, <<pr>>)) EXCEPT !.object = "database"] :
            pr \in FewProperties}

BlockTypes == AllowList \cup {"image", "embed"}

\* what a block holds under the key named after its type
BlockPayloads ==
  {[t |-> "object", rich_text |-> Arr(rt)] : rt \in TitleTexts}
    \cup {[t |-> "object", rich_text |-> Arr(<<Span("text", Undefined, Undefined, Undefined),
                                               TextSpan(<<"y">>)>>)],
          [t |-> "object"], Null}

BlockOf(kind, type, payload) ==
  [k \in {"object", "id", "type", type} |->
     IF k = "object" THEN kind ELSE IF k = "type" THEN type
     ELSE IF k = "id" THEN SomeValue ELSE payload]

Blocks ==
  {BlockOf("block", type, payload) : type \in BlockTypes, payload \in BlockPayloads}
    \cup {[object |-> "block", id |-> SomeValue, type |-> type] : type \in BlockTypes}
    \cup {[object |-> "block", id |-> SomeValue,
           paragraph |-> [t |-> "object", rich_text |-> Arr(<<TextSpan(<<"x">>)>>)]]}
    \cup {BlockOf("page", "paragraph", [t |-> "object", rich_text |-> Arr(<<TextSpan(<<"x">>)>>)])}

ObjArgs == Responses \cup PageObjects \cup Blocks

\* the names getPageProperty is asked for
AskedNames == {PropertyNames[1], PropertyNames[2], "Missing"}

\* the field whose presence makes objectResponse full for the predicate f
DistinguishingField(f, objectResponse) ==
  CASE f = "isFullBlock" -> "type"
    [] f = "isFullPage" -> "url"
    [] f = "isFullDataSource" -> "object"
    [] f = "isFullDatabase" -> "object"
    [] f = "isFullPageOrDataSource" ->
         IF ObjectIs(objectResponse, "data_source") THEN "object" ELSE "url"
    [] f = "isFullUser" -> "type"
    [] f = "isFullComment" -> "created_by"

AfterDelete ==
  [ isFullBlock |-> "isFullBlock after delete", isFullPage |-> "isFullPage after delete",
    isFullDataSource |-> "isFullDataSource after delete",
    isFullDatabase |-> "isFullDatabase after delete",
    isFullPageOrDataSource |-> "isFullPageOrDataSource after delete",
    isFullUser |-> "isFullUser after delete", isFullComment |-> "isFullComment after delete" ]

CallIsFull(f) ==
  /\ op = "start"
  /\ op' = f
  /\ ret' = Bool(IsFull(f, arg))
  /\ UNCHANGED <<arg, pageVars>>

\* the predicate that said true, asked again without the distinguishing field
CallIsFullAfterDelete(f) ==
  /\ op = f
  /\ ret = Bool(TRUE)
  /\ op' = AfterDelete[f]
  /\ arg' = Delete(arg, DistinguishingField(f, arg))
  /\ ret' = Bool(IsFull(f, arg'))
  /\ UNCHANGED pageVars

CallGetPageTitle ==
  /\ op = "start"
  /\ op' = "getPageTitle"
  /\ ret' = GetPageTitle(arg)
  /\ UNCHANGED <<arg, pageVars>>

CallGetPageProperty(propertyName) ==
  /\ op = "start"
  /\ op' = "getPageProperty"
  /\ arg' = [page |-> arg, propertyName |-> propertyName]
  /\ ret' = GetPageProperty(arg, propertyName)
  /\ UNCHANGED pageVars

CallGetBlockPlainText ==
  /\ op = "start"
  /\ op' = "getBlockPlainText"
  /\ ret' = GetBlockPlainText(arg)
  /\ UNCHANGED <<arg, pageVars>>

CallGetPagePropertyNames ==
  /\ op = "start"
  /\ op' = "getPagePropertyNames"
  /\ ret' = GetPagePropertyNames(arg)
  /\ UNCHANGED <<arg, pageVars>>

CallGetPagePropertiesAsObject ==
  /\ op = "start"
  /\ op' = "getPagePropertiesAsObject"
  /\ ret' = GetPagePropertiesAsObject(arg)
  /\ UNCHANGED <<arg, pageVars>>

\* every predicate asked about the same response
CallEachIsFull ==
  /\ op = "start"
  /\ op' = "isFull*"
  /\ ret' = [f \in Predicates |-> IsFull(f, arg)]
  /\ UNCHANGED <<arg, pageVars>>

InitObj ==
  /\ InitOver({1})
  /\ consumer[1] = "manual"
  /\ firstPageArgs[1] = [block_id |-> Str("b1")]
  /\ op = "start"
  /\ arg \in ObjArgs
  /\ ret = Undefined

NextObj ==
  \/ \E f \in Predicates : CallIsFull(f)
  \/ \E f \in Predicates : CallIsFullAfterDelete(f)
  \/ CallGetPageTitle
  \/ \E propertyName \in AskedNames : CallGetPageProperty(propertyName)
  \/ CallGetBlockPlainText
  \/ CallGetPagePropertyNames
  \/ CallGetPagePropertiesAsObject
  \/ CallEachIsFull

SpecObj == InitObj /\ [][NextObj]_vars

(***************************************************************************)
(* What a run is measured against: the replies of listFn, read as the      *)
(* pagination contract reads them.                                         *)
(***************************************************************************)
\* the items the iterator delivered, in delivery order
RECURSIVE Items(_)
Items(o) ==
  IF o = <<>> THEN <<>>
  ELSE IF Head(o).t = "item" THEN <<Head(o).v>> \o Items(Tail(o))
       ELSE Items(Tail(o))

\* results of replies 1..k, concatenated
RECURSIVE ConcatResults(_, _)
ConcatResults(rep, k) ==
  IF k = 0 THEN <<>> ELSE ConcatResults(rep, k - 1) \o rep[k].results

IsFalsyReply(r) == r.t = "resolve" /\ r.next_cursor \in FalsyCursors
IsTruthyReply(r) == r.t = "resolve" /\ r.next_cursor \notin FalsyCursors

\* the index of the first reply with a falsy next_cursor, 0 when there is none
FirstFalsy(rep) ==
  IF \E k \in 1..Len(rep) : IsFalsyReply(rep[k])
  THEN CHOOSE k \in 1..Len(rep) :
         IsFalsyReply(rep[k]) /\ \A m \in 1..(k - 1) : ~IsFalsyReply(rep[m])
  ELSE 0

AllResolve(rep) == \A k \in 1..Len(rep) : rep[k].t = "resolve"

IsPrefix(a, b) == Len(a) <= Len(b) /\ SubSeq(b, 1, Len(a)) = a

ResolvedWith(v) == [t |-> "resolved", v |-> v]
RejectedWith(e) == [t |-> "rejected", error |-> e]

\* no return() was answered and no error delivered on sequence i
OnlyNexts(o) == \A k \in 1..Len(o) : o[k].t = "item" \/ o[k] = DoneOut("next")

(***************************************************************************)
(* C1: with a listFn that always resolves and whose k-th reply is the      *)
(* first with a falsy next_cursor, collectPaginatedAPI resolves to exactly *)
(* the concatenation of the results of replies 1..k, in order, and listFn  *)
(* is invoked exactly k times.                                             *)
(***************************************************************************)
C1_CollectConcat ==
  \A i \in Seqs :
    (consumer[i] = "collect" /\ AllResolve(replies[i])) =>
      LET k == FirstFalsy(replies[i]) IN
      /\ k # 0 =>
           /\ Len(calls[i]) = k
           /\ Len(replies[i]) = k
           /\ collected[i].promise \in {Pending, ResolvedWith(ConcatResults(replies[i], k))}
           /\ IsPrefix(collected[i].results, ConcatResults(replies[i], k))
      /\ collected[i].promise # Pending =>
           /\ k # 0
           /\ collected[i].promise = ResolvedWith(ConcatResults(replies[i], k))

C1_Witness ==
  \E i \in Seqs :
    /\ consumer[i] = "collect"
    /\ Len(calls[i]) = 3
    /\ collected[i].promise.t = "resolved"
    /\ Len(collected[i].promise.v) >= 4

(***************************************************************************)
(* C2: another listFn call follows a reply if and only if that reply's     *)
(* next_cursor is truthy, whatever has_more says; the first call is made   *)
(* whatever firstPageArgs.start_cursor is.                                 *)
(***************************************************************************)
C2_CursorDecides ==
  \A i \in Seqs :
    \* a call after the first follows a reply with a truthy next_cursor
    /\ \A n \in 2..Len(calls[i]) : IsTruthyReply(replies[i][n - 1])
    \* a sequence that ended by itself ended on a falsy next_cursor
    /\ (gen[i].state = "completed" /\ OnlyNexts(out[i])) =>
         /\ replies[i] # <<>>
         /\ IsFalsyReply(replies[i][Len(replies[i])])
    \* a next() that neither an item nor the end answers has a call outstanding
    /\ queue[i] # <<>> =>
         (gen[i].state = "awaiting" /\ Len(calls[i]) = Len(replies[i]) + 1)
    \* unless return() came first, the first answer was preceded by a call
    /\ (out[i] # <<>> /\ out[i][1] # DoneOut("return")) => Len(calls[i]) >= 1
    \* an empty first page with a falsy cursor: empty result after one call
    /\ (consumer[i] = "collect" /\ Len(replies[i]) >= 1 /\ IsFalsyReply(replies[i][1])
        /\ replies[i][1].results = <<>>) =>
         (collected[i].promise = ResolvedWith(<<>>) /\ Len(calls[i]) = 1)

C2_Witness ==
  \E i \in Seqs :
    /\ "start_cursor" \notin DOMAIN firstPageArgs[i]
    /\ Len(calls[i]) = 2
    /\ Len(replies[i]) = 2
    /\ replies[i][1].has_more = FALSE /\ Truthy(replies[i][1].next_cursor)
    /\ replies[i][2].t = "resolve"
    /\ replies[i][2].has_more = TRUE /\ replies[i][2].next_cursor = Null
    /\ gen[i].state = "completed"
    /\ OnlyNexts(out[i])

(***************************************************************************)
(* C3: when listFn rejects on its n-th invocation with error E, the        *)
(* iterator has delivered every item of pages 1..n-1 in order, the next    *)
(* answer is the failure E itself, collectPaginatedAPI rejects with E, and *)
(* listFn is not invoked again.                                            *)
(***************************************************************************)
C3_ErrorUnchanged ==
  \A i \in Seqs :
    \A n \in 1..Len(replies[i]) :
      replies[i][n].t = "reject" =>
        LET E == replies[i][n].error
            before == ConcatResults(replies[i], n - 1)
        IN
        /\ Len(calls[i]) = n
        /\ Len(replies[i]) = n
        /\ Len(out[i]) > Len(before)
        /\ SubSeq(out[i], 1, Len(before)) = [k \in 1..Len(before) |-> ItemOut(before[k])]
        /\ out[i][Len(before) + 1] = ErrorOut(E)
        /\ \A k \in (Len(before) + 2)..Len(out[i]) : out[i][k].t = "done"
        /\ consumer[i] = "collect" => collected[i].promise = RejectedWith(E)

C3_Witness ==
  \E i \in Seqs :
    /\ consumer[i] = "collect"
    /\ Len(replies[i]) = 3
    /\ replies[i][3] = Rejected("E2")
    /\ Len(collected[i].results) >= 3
    /\ collected[i].promise = RejectedWith("E2")

(***************************************************************************)
(* C4: no read-ahead.  At most one listFn call is outstanding; a call is   *)
(* outstanding only while a next() of the consumer is unanswered, and only *)
(* after every earlier reply resolved and all its items were delivered.    *)
(***************************************************************************)
C4_NoReadAhead ==
  \A i \in Seqs :
    /\ Len(calls[i]) = Len(replies[i]) + (IF gen[i].state = "awaiting" THEN 1 ELSE 0)
    /\ gen[i].state = "awaiting" =>
         /\ queue[i] # <<>>
         /\ Head(queue[i]) = "next"
         /\ AllResolve(replies[i])
         /\ Items(out[i]) = ConcatResults(replies[i], Len(replies[i]))
         /\ Len(out[i]) = Len(Items(out[i]))
    /\ gen[i].state # "awaiting" => queue[i] = <<>>

C4_Witness ==
  \E i \in Seqs :
    /\ Len(calls[i]) = 2
    /\ Len(replies[i]) = 2
    /\ AllResolve(replies[i])
    /\ Len(replies[i][2].results) = 2
    /\ Truthy(replies[i][2].next_cursor)
    /\ Len(Items(out[i])) = Len(ConcatResults(replies[i], 2))
    /\ out[i][Len(out[i])] = DoneOut("return")

(***************************************************************************)
(* C5: every listFn invocation gets firstPageArgs with only start_cursor   *)
(* overridden: by firstPageArgs.start_cursor on call 1, by the next_cursor *)
(* of reply n on call n+1.  firstPageArgs itself is never modified.        *)
(***************************************************************************)
ArgsAsContract(i, n) ==
  LET a == calls[i][n]
      fpa == firstPageArgs[i]
  IN
  /\ DOMAIN a = DOMAIN fpa \cup {"start_cursor"}
  /\ \A k \in DOMAIN fpa \ {"start_cursor"} : a[k] = fpa[k]
  /\ a.start_cursor =
       IF n = 1
       THEN (IF "start_cursor" \in DOMAIN fpa THEN fpa.start_cursor ELSE Undefined)
       ELSE replies[i][n - 1].next_cursor

C5_ArgsOnlyCursor ==
  /\ [](\A i \in Seqs : \A n \in 1..Len(calls[i]) : ArgsAsContract(i, n))
  /\ [][firstPageArgs' = firstPageArgs]_vars

C5_Witness ==
  \E i \in Seqs :
    /\ Len(calls[i]) = 3
    /\ "page_size" \in DOMAIN firstPageArgs[i]
    /\ calls[i][1].start_cursor = Str("c0")
    /\ calls[i][3].start_cursor = Str("c1")

(***************************************************************************)
(* C6: sequences advanced in any interleaving each issue the calls and     *)
(* deliver the items of their own run: the cursors of sequence i are those *)
(* of its own firstPageArgs and its own replies, its items those of its    *)
(* own pages.                                                              *)
(***************************************************************************)
C6_Independent ==
  \A i \in Seqs :
    /\ \A n \in 1..Len(calls[i]) : ArgsAsContract(i, n)
    /\ \A n \in 2..Len(calls[i]) : IsTruthyReply(replies[i][n - 1])
    /\ LET pages == ConcatResults(replies[i],
                      Cardinality({n \in 1..Len(replies[i]) : replies[i][n].t = "resolve"}))
       IN IsPrefix(Items(out[i]), pages)

C6_Witness ==
  /\ Seqs = {1, 2}
  /\ Len(calls[1]) = 2 /\ Len(calls[2]) = 2
  /\ calls[1][2].start_cursor = Str("c1")
  /\ calls[2][2].start_cursor = Str("c2")
  /\ Len(replies[1]) = 2 /\ Len(replies[2]) = 1
  /\ Len(Items(out[1])) = 3 /\ Len(Items(out[2])) = 2

(***************************************************************************)
(* What the identifier claims speak of, read off the string itself.        *)
(***************************************************************************)
\* lowercase hex in the 8-4-4-4-12 grouping, 36 characters
IsCanonical(s) ==
  /\ Len(s) = 36
  /\ \A k \in 1..36 : IF k \in {9, 14, 19, 24} THEN s[k] = "-" ELSE s[k] \in LowerHex

IsHexRun(s, k, n) ==
  /\ k >= 1
  /\ k + n - 1 <= Len(s)
  /\ \A m \in k..(k + n - 1) : IsHex(s[m])

\* the whole string has the hyphenated shape, in either case
HasUuidShape(s) == Len(s) = 36 /\ IsCanonical(ToLowerCase(s))

\* neither a UUID as a whole nor 32 hex digits in a row anywhere
NoCandidate(s) ==
  /\ ~HasUuidShape(s)
  /\ \A k \in 1..Len(s) : ~IsHexRun(s, k, 32)

\* the 32 characters of `id` end a path segment of the URL s
PathEmbeds(s, id) ==
  \E k \in 2..Len(s) :
    /\ k + 31 <= Len(s)
    /\ SubSeq(s, k, k + 31) = id
    /\ s[k - 1] \in {"/", "-"}
    /\ \A m \in 1..(k - 1) : s[m] \notin {"?", "#"}
    /\ (k + 31 = Len(s) \/ s[k + 32] \in {"/", "?", "#"})

\* the URL s carries the query parameter p=id
HasParamP(s, id) ==
  \E k \in 1..Len(s) :
    /\ k + 34 <= Len(s)
    /\ s[k] \in {"?", "&"}
    /\ s[k + 1] = "p"
    /\ s[k + 2] = "="
    /\ SubSeq(s, k + 3, k + 34) = id

CanonicalOf(id) == Hyphenated(ToLowerCase(id))

Ids == {HexA, HexB}

C8_PathOverQuery ==
  \A A \in Ids, B \in Ids :
    (/\ op = "extractNotionId"
     /\ arg.t = "string"
     /\ A # B
     /\ PathEmbeds(Trim(arg.v), A)
     /\ HasParamP(Trim(arg.v), B)) => ret = Chars(CanonicalOf(A))

\* the part of C8 the code keeps: the id follows a hyphen of its path segment
C8_SlugPathOverQuery ==
  \A A \in Ids, B \in Ids :
    (/\ op = "extractNotionId"
     /\ arg.t = "string"
     /\ A # B
     /\ PathEmbeds(Trim(arg.v), A)
     /\ \E k \in 2..Len(Trim(arg.v)) :
          Trim(arg.v)[k - 1] = "-" /\ SubSeq(Trim(arg.v), k, k + 31) = A
     /\ HasParamP(Trim(arg.v), B)) => ret = Chars(CanonicalOf(A))

C11_ValidIffShape ==
  op = "isValidNotionId" =>
    ret = Bool(/\ arg.t = "string"
               /\ LET s == Trim(arg.v) IN
                  HasUuidShape(s) \/ (Len(s) = 32 /\ IsHexRun(s, 1, 32)))

C11_Witness ==
  /\ op = "isValidNotionId"
  /\ ret = Bool(TRUE)
  /\ arg.v # Trim(arg.v)
  /\ Len(Trim(arg.v)) = 36

\* the string holds "#" or "#block-" followed by 32 hex digits, at k
FragmentAt(s, k) ==
  /\ s[k] = "#"
  /\ \/ IsHexRun(s, k + 1, 32)
     \/ /\ k + 6 <= Len(s)
        /\ ToLowerCase(SubSeq(s, k + 1, k + 6)) = <<"b", "l", "o", "c", "k", "-">>
        /\ IsHexRun(s, k + 7, 32)

\* the 32 hex digits of the fragment at k
FragmentId(s, k) ==
  IF IsHexRun(s, k + 1, 32) THEN SubSeq(s, k + 1, k + 32) ELSE SubSeq(s, k + 7, k + 38)

(***************************************************************************)
(* C12: extractBlockId looks only at a URL fragment: it returns the        *)
(* canonical form of the 32 hex digits that follow "#block-" or "#", and   *)
(* null when the input has no such fragment, even when its path or query   *)
(* holds an id; extractDatabaseId and extractPageId return exactly what    *)
(* extractNotionId returns for the same input.                             *)
(***************************************************************************)
C12_BlockFragmentOnly ==
  /\ op = "extractBlockId" =>
       IF arg.t = "string" /\ \E k \in 1..Len(arg.v) : FragmentAt(arg.v, k)
       THEN \E k \in 1..Len(arg.v) :
              /\ FragmentAt(arg.v, k)
              /\ \A m \in 1..(k - 1) : ~FragmentAt(arg.v, m)
              /\ ret = Chars(CanonicalOf(FragmentId(arg.v, k)))
       ELSE ret = Null
  /\ op \in {"extractDatabaseId", "extractPageId"} => ret = ExtractNotionId(arg)

C12_Witness ==
  /\ op = "extractBlockId"
  /\ arg.t = "string"
  /\ ret = Null
  /\ ExtractNotionId(arg) # Null

(***************************************************************************)
(* What the rich-text claims speak of, read off the spans themselves.      *)
(***************************************************************************)
\* the plain_text of a span, "" when it has none
PlainOrEmpty(sp) == IF sp.plain_text.t = "string" THEN sp.plain_text.v ELSE <<>>

\* the flag `name` of a span is set
Flag(sp, name) == sp.annotations.t = "object" /\ sp.annotations[name]

Opt(flag, marker) == IF flag THEN marker ELSE <<>>

\* the markers around the plain text, outermost first: code, underline,
\* strikethrough, italic, bold
Marked(sp) ==
  Opt(Flag(sp, "code"), <<Backtick>>) \o Opt(Flag(sp, "underline"), <<"<", "u", ">">>)
    \o Opt(Flag(sp, "strikethrough"), <<"~", "~">>) \o Opt(Flag(sp, "italic"), <<"*">>)
    \o Opt(Flag(sp, "bold"), <<"*", "*">>)
    \o PlainOrEmpty(sp)
    \o Opt(Flag(sp, "bold"), <<"*", "*">>) \o Opt(Flag(sp, "italic"), <<"*">>)
    \o Opt(Flag(sp, "strikethrough"), <<"~", "~">>)
    \o Opt(Flag(sp, "underline"), <<"<", "/", "u", ">">>) \o Opt(Flag(sp, "code"), <<Backtick>>)

HasLink(sp) == sp.text.t = "object" /\ sp.text.link.t = "object"

\* what a span that is neither an equation nor a mention is to become
Rendered(sp) ==
  IF sp.type = "text" /\ HasLink(sp)
  THEN <<"[">> \o Marked(sp) \o <<"]", "(">> \o sp.text.link.url \o <<")">>
  ELSE Marked(sp)

\* what an equation or a mention is to become
Verbatim(sp) ==
  IF sp.type = "equation" THEN <<"$">> \o PlainOrEmpty(sp) \o <<"$">> ELSE PlainOrEmpty(sp)

Special(sp) == sp.type \in {"equation", "mention"}

\* f of span 1, f of span 2, ... one after the other, nothing between
RECURSIVE Flatten(_)
Flatten(ss) ==
  IF ss = <<>> THEN <<>> ELSE Flatten(SubSeq(ss, 1, Len(ss) - 1)) \o ss[Len(ss)]

InOrder(spans, f(_)) == Flatten([k \in 1..Len(spans) |-> f(spans[k])])

(***************************************************************************)
(* C13: richTextToMarkdown wraps the plain_text of a span that is neither  *)
(* an equation nor a mention in bold, italic, strikethrough, underline and *)
(* then code markers, innermost first, each only when its flag is set, and *)
(* then, only for a span of type text with a link, in [..](url); bold and  *)
(* italic give ***x***, bold and code give `**x**`; the spans are joined   *)
(* in order with nothing between them.                                     *)
(***************************************************************************)
C13_AnnotationOrder ==
  (op = "richTextToMarkdown" /\ IsArray(arg) /\ \A k \in 1..Len(arg.v) : ~Special(arg.v[k])) =>
    /\ ret = Chars(InOrder(arg.v, Rendered))
    /\ \A sp \in Spans :
         (arg.v = <<sp>> /\ sp.plain_text = Chars(<<"x">>) /\ ~HasLink(sp)
            /\ sp.annotations.t = "object") =>
           /\ sp.annotations = [NoAnnotations EXCEPT !.bold = TRUE, !.italic = TRUE]
                => ret = Chars(<<"*", "*", "*", "x", "*", "*", "*">>)
           /\ sp.annotations = [NoAnnotations EXCEPT !.bold = TRUE, !.code = TRUE]
                => ret = Chars(<<Backtick, "*", "*", "x", "*", "*", Backtick>>)

C13_Witness ==
  /\ op = "richTextToMarkdown"
  /\ IsArray(arg)
  /\ Len(arg.v) = 1
  /\ arg.v[1].type = "text"
  /\ HasLink(arg.v[1])
  /\ \A name \in {"bold", "italic", "strikethrough", "underline", "code"} : Flag(arg.v[1], name)
  /\ ret = Chars(<<"[", Backtick, "<", "u", ">", "~", "~", "*", "*", "*", "x", "*", "*", "*",
                   "~", "~", "<", "/", "u", ">", Backtick, "]", "(">> \o Url \o <<")">>)

OneMention ==
  /\ IsArray(arg)
  /\ Len(arg.v) = 1
  /\ arg.v[1].type = "mention"
  /\ PlainOrEmpty(arg.v[1]) # <<>>

C16_PlainTextConcat ==
  /\ (op = "richTextToPlainText" /\ IsArray(arg)) =>
       /\ ret = Chars(InOrder(arg.v, PlainOrEmpty))
       /\ \A k \in 0..Len(arg.v) :
            ret.v = RichTextToPlainText(Arr(SubSeq(arg.v, 1, k))).v
                      \o RichTextToPlainText(Arr(SubSeq(arg.v, k + 1, Len(arg.v)))).v
  /\ (op \in {"richTextToPlainText", "richTextToMarkdown"}
        /\ (~IsArray(arg) \/ arg.v = <<>>)) => ret = Chars(<<>>)

C16_Witness ==
  /\ op = "richTextToPlainText"
  /\ IsArray(arg)
  /\ Len(arg.v) = 2
  /\ arg.v[1].plain_text = Undefined
  /\ arg.v[2].plain_text = Chars(<<"@", "J">>)
  /\ ret = Chars(<<"@", "J">>)

(***************************************************************************)
(* What the claims on responses and pages speak of, read off the object.   *)
(***************************************************************************)
HasKey(o, key) == key \in DOMAIN o

KindIs(o, kind) == HasKey(o, "object") /\ o.object = kind

\* the documented single-field rule of the predicate f
Rule(f, o) ==
  CASE f = "isFullBlock" -> KindIs(o, "block") /\ HasKey(o, "type")
    [] f = "isFullPage" -> KindIs(o, "page") /\ HasKey(o, "url")
    [] f = "isFullDataSource" -> KindIs(o, "data_source")
    [] f = "isFullDatabase" -> KindIs(o, "database")
    [] f = "isFullPageOrDataSource" ->
         IF KindIs(o, "data_source") THEN IsFullDataSource(o) ELSE IsFullPage(o)
    [] f = "isFullUser" -> HasKey(o, "type")
    [] f = "isFullComment" -> HasKey(o, "created_by")

(***************************************************************************)
(* C17: each shape predicate equals its single-field rule on every object: *)
(* isFullBlock iff object is "block" and a type key is present, isFullPage *)
(* iff object is "page" and a url key is present, isFullDataSource iff     *)
(* object is "data_source", isFullDatabase iff object is "database",       *)
(* isFullUser iff a type key is present, isFullComment iff a created_by    *)
(* key is present, isFullPageOrDataSource as isFullDataSource for a        *)
(* data_source and as isFullPage otherwise; an object the predicate calls  *)
(* full is not full once its distinguishing field is deleted.              *)
(***************************************************************************)
C17_ShapeRules ==
  \A f \in Predicates :
    /\ op = f => ret = Bool(Rule(f, arg))
    /\ op = AfterDelete[f] => ret = Bool(FALSE)

C17_Witness ==
  /\ op = AfterDelete["isFullPage"]
  /\ KindIs(arg, "page")
  /\ HasKey(arg, "properties")
  /\ ~HasKey(arg, "url")
  /\ ret = Bool(FALSE)

\* a page with a url and a properties object
HasProperties(o) == HasKey(o, "properties") /\ o.properties.t = "object"

WholePage(o) == KindIs(o, "page") /\ HasKey(o, "url") /\ HasProperties(o)

\* name is a key of the properties of page
HasProperty(page, name) ==
  \E k \in 1..Len(page.properties.keys) : page.properties.keys[k] = name

\* the property of page called name
PropertyCalled(page, name) ==
  page.properties.vals[CHOOSE k \in 1..Len(page.properties.keys) : page.properties.keys[k] = name]

\* the property has the type tag ty and a payload under that key
Carries(pr, ty) == HasKey(pr, "type") /\ pr.type = ty /\ HasKey(pr, ty)

NameOf(option) == option.name

(***************************************************************************)
(* C18: getPageProperty(page, name) is null when page is not a full page,  *)
(* has no properties map or has no property called name; otherwise title   *)
(* and rich_text give the plain text of their spans, multi_select the      *)
(* names of its options in order, each kind of RawKinds its payload as it  *)
(* is, and a type tag that is not recognised null, with nothing thrown.    *)
(***************************************************************************)
C18_PropertyDispatch ==
  op = "getPageProperty" =>
    LET page == arg.page
        name == arg.propertyName
    IN IF ~WholePage(page) \/ ~HasProperty(page, name) THEN ret = Null
       ELSE LET pr == PropertyCalled(page, name) IN
            /\ \A ty \in {"title", "rich_text"} :
                 Carries(pr, ty) => ret = Chars(InOrder(pr[ty].v, PlainOrEmpty))
            /\ Carries(pr, "multi_select") =>
                 ret = Arr([k \in 1..Len(pr.multi_select.v) |-> NameOf(pr.multi_select.v[k])])
            /\ \A ty \in RawKinds : Carries(pr, ty) => ret = pr[ty]
            /\ (~HasKey(pr, "type") \/ pr.type \notin RawKinds \cup NormalizedKinds) => ret = Null

C18_Witness ==
  /\ op = "getPageProperty"
  /\ WholePage(arg.page)
  /\ HasProperty(arg.page, arg.propertyName)
  /\ Carries(PropertyCalled(arg.page, arg.propertyName), "multi_select")
  /\ ret = Arr(<<Chars(<<"T", "1">>), Chars(<<"T", "2">>)>>)

\* getPageProperty was asked for a select or status property that is there
AskedSelect ==
  /\ op = "getPageProperty"
  /\ WholePage(arg.page)
  /\ HasProperty(arg.page, arg.propertyName)
  /\ \E ty \in {"select", "status"} : Carries(PropertyCalled(arg.page, arg.propertyName), ty)

\* the nested select or status object
Nested == LET pr == PropertyCalled(arg.page, arg.propertyName) IN pr[pr.type]

(***************************************************************************)
(* C19: for a property of type select or status getPageProperty returns    *)
(* the name of the nested object, and null when the nested object is null. *)
(***************************************************************************)
C19_SelectNameOrNull ==
  AskedSelect => IF Nested = Null THEN ret = Null ELSE ret = Nested.name

\* the part of C19 that holds: the name of a nested object that is there
C19_SelectName ==
  (AskedSelect /\ Nested # Null) => ret = Nested.name

\* the positions of the properties of page whose type tag is title
TitleAt(page) ==
  IF HasProperties(page)
  THEN {k \in 1..Len(page.properties.vals) :
          HasKey(page.properties.vals[k], "type") /\ page.properties.vals[k].type = "title"}
  ELSE {}

\* the plain text of the first title property of page
FirstTitleText(page) ==
  LET k == CHOOSE a \in TitleAt(page) : \A b \in TitleAt(page) : a <= b
      pr == page.properties.vals[k]
  IN IF HasKey(pr, "title") THEN Chars(InOrder(pr.title.v, PlainOrEmpty)) ELSE Chars(<<>>)

\* what getPageTitle is to return for o
TitleOrEmpty(o) ==
  IF KindIs(o, "page") /\ HasKey(o, "url") /\ TitleAt(o) # {} THEN FirstTitleText(o)
  ELSE Chars(<<>>)

(***************************************************************************)
(* C20: getPageTitle returns the plain text of the first property, in the  *)
(* iteration order of the properties map, whose type tag is title, and the *)
(* empty string when the page is not a full page or has no title property. *)
(***************************************************************************)
C20_FirstTitle ==
  op = "getPageTitle" => ret = TitleOrEmpty(arg)

\* the part of C20 that holds: objects that are no full page, and full pages
\* that have a properties object
C20_FirstTitleOfProperties ==
  (op = "getPageTitle" /\ (Rule("isFullPage", arg) => HasProperties(arg))) =>
    ret = TitleOrEmpty(arg)

\* the block types whose text is rendered
Listed(type) ==
  type \in { "paragraph", "heading_1", "heading_2", "heading_3", "bulleted_list_item",
             "numbered_list_item", "toggle", "to_do", "quote", "callout", "code" }

WholeBlock(o) == KindIs(o, "block") /\ HasKey(o, "type")

\* the block holds, under the key named after its type, a rich_text array
HasRichText(o) ==
  /\ HasKey(o, o.type)
  /\ o[o.type].t = "object"
  /\ HasKey(o[o.type], "rich_text")
  /\ o[o.type].rich_text.t = "array"

(***************************************************************************)
(* C21: getBlockPlainText returns the empty string when the block is not a *)
(* full block or its type is outside the allow-list (image, embed); for an *)
(* allow-listed type it returns the plain text of the rich_text array held *)
(* under the key named after that type.                                    *)
(***************************************************************************)
C21_BlockText ==
  op = "getBlockPlainText" =>
    IF ~WholeBlock(arg) THEN ret = Chars(<<>>)
    ELSE IF ~Listed(arg.type) THEN ret = Chars(<<>>)
    ELSE HasRichText(arg) => ret = Chars(InOrder(arg[arg.type].rich_text.v, PlainOrEmpty))

C21_Witness ==
  /\ op = "getBlockPlainText"
  /\ WholeBlock(arg)
  /\ arg.type = "heading_2"
  /\ HasRichText(arg)
  /\ ret = Chars(<<"x", "y">>)

(***************************************************************************)
(* C22: for a full page getPagePropertyNames returns exactly the keys of   *)
(* the properties map, and getPagePropertiesAsObject a mapping whose keys  *)
(* are getPagePropertyNames(page) and whose value at each key k is         *)
(* getPageProperty(page, k); for a page that is not full they return []    *)
(* and {}.                                                                 *)
(***************************************************************************)
C22_NamesAndObject ==
  /\ op = "getPagePropertyNames" =>
       IF WholePage(arg) THEN ret = Arr(arg.properties.keys) ELSE ret = Arr(<<>>)
  /\ op = "getPagePropertiesAsObject" =>
       /\ ret.keys = GetPagePropertyNames(arg).v
       /\ \A k \in 1..Len(ret.keys) : ret.vals[k] = GetPageProperty(arg, ret.keys[k])
       /\ ~Rule("isFullPage", arg) => ret = [t |-> "object", keys |-> <<>>, vals |-> <<>>]

C22_Witness ==
  /\ op = "getPagePropertiesAsObject"
  /\ WholePage(arg)
  /\ ret.keys = <<"Name", "Status">>
  /\ ret.vals = <<Chars(<<"y">>), Num(42)>>

Extractors ==
  { "getPageTitle", "getPageProperty", "getPagePropertyNames",
    "getPagePropertiesAsObject", "getBlockPlainText" }

(***************************************************************************)
(* C23: getPageTitle, getPageProperty, getPagePropertyNames,               *)
(* getPagePropertiesAsObject and getBlockPlainText throw on no object: a   *)
(* page that has a url but no properties map gets "", null, [] and {}, and *)
(* a block of an allow-listed type whose payload is missing or null "".    *)
(***************************************************************************)
C23_NeverThrow ==
  /\ op \in Extractors => ret # Thrown
  /\ (op = "getPageTitle" /\ Rule("isFullPage", arg) /\ ~HasProperties(arg)) =>
       ret = Chars(<<>>)
  /\ (op = "getBlockPlainText" /\ WholeBlock(arg) /\ Listed(arg.type)
        /\ (~HasKey(arg, arg.type) \/ arg[arg.type] = Null)) => ret = Chars(<<>>)

\* the part of C23 that holds: the extractors that guard the properties map,
\* and a block whose payload key is missing
C23_GuardedNeverThrow ==
  /\ op \in {"getPageProperty", "getPagePropertyNames", "getPagePropertiesAsObject"} =>
       ret # Thrown
  /\ (op = "getPagePropertyNames" /\ ~WholePage(arg)) => ret = Arr(<<>>)
  /\ (op = "getPageProperty" /\ ~WholePage(arg.page)) => ret = Null
  /\ (op = "getBlockPlainText" /\ WholeBlock(arg) /\ ~HasKey(arg, arg.type)) =>
       ret = Chars(<<>>)

(***************************************************************************)
(* C29: of isFullBlock, isFullPage, isFullDataSource and isFullDatabase at *)
(* most one is true of a response, a full page is never a full block, and  *)
(* isFullPageOrDataSource holds exactly when isFullPage or                 *)
(* isFullDataSource holds.                                                 *)
(***************************************************************************)
C29_Exclusive ==
  op = "isFull*" =>
    /\ Cardinality({f \in {"isFullBlock", "isFullPage", "isFullDataSource", "isFullDatabase"} :
                      ret[f]}) <= 1
    /\ ~(ret["isFullPage"] /\ ret["isFullBlock"])
    /\ ret["isFullPageOrDataSource"] = (ret["isFullPage"] \/ ret["isFullDataSource"])

C29_Witness ==
  /\ op = "isFull*"
  /\ KindIs(arg, "page")
  /\ HasKey(arg, "type")
  /\ HasKey(arg, "url")
  /\ ret["isFullPage"]
  /\ ret["isFullPageOrDataSource"]
  /\ ~ret["isFullBlock"]

\* the reply r of listTemplates read as a reply of listFn
AsResults(r) ==
  IF r.t = "resolve" THEN Resolved(r.templates, r.next_cursor, r.has_more) ELSE r

(***************************************************************************)
(* C24: iterateDataSourceTemplates and collectDataSourceTemplates behave   *)
(* as iteratePaginatedAPI and collectPaginatedAPI do with listTemplates as *)
(* the list call and templates in place of results: given the same replies *)
(* and the same requests, the same calls with the same start_cursor are    *)
(* issued, the sequences stop at the same point, the same errors reach the *)
(* consumer and the same items are delivered in the same order.            *)
(***************************************************************************)
C24_TemplatesAsGeneric ==
  (Seqs = {1, 2} /\ firstPageArgs[1] \in TemplateArgsChoices) =>
    /\ calls[2] = calls[1]
    /\ gen[2].state = gen[1].state
    /\ out[2] = out[1]
    /\ collected[2] = collected[1]
    /\ Len(replies[2]) = Len(replies[1])
    /\ \A k \in 1..Len(replies[2]) : AsResults(replies[2][k]) = replies[1][k]

C24_Witness ==
  /\ Seqs = {1, 2}
  /\ firstPageArgs[2] \in TemplateArgsChoices
  /\ consumer[2] = "collect"
  /\ Len(calls[2]) = 2
  /\ calls[2][1].start_cursor = Str("c0")
  /\ calls[2][2].start_cursor = Str("c1")
  /\ Len(replies[2]) = 2
  /\ replies[2][2].t = "resolve"
  /\ collected[2].promise.t = "resolved"
  /\ Len(collected[2].promise.v) = 3

\* 32 hex digits at k with no hex digit before or after them
StandaloneRun(s, k) ==
  /\ IsHexRun(s, k, 32)
  /\ (k = 1 \/ ~IsHex(s[k - 1]))
  /\ (k + 32 > Len(s) \/ ~IsHex(s[k + 32]))

\* extractNotionId came to its last search: a string that is no id as a
\* whole and in which the path and query searches found nothing
LastResort ==
  /\ op = "extractNotionId"
  /\ arg.t = "string"
  /\ ~HasUuidShape(Trim(arg.v))
  /\ ~(Len(Trim(arg.v)) = 32 /\ IsHexRun(Trim(arg.v), 1, 32))
  /\ ~PathMatch(Trim(arg.v)).found
  /\ ~QueryMatch(Trim(arg.v)).found

(***************************************************************************)
(* C25: when the path and query searches find nothing, the last search of  *)
(* extractNotionId accepts only a run of exactly 32 hex digits: an input   *)
(* whose hex runs are all longer or all shorter gives null, and no result  *)
(* is made of 32 characters cut from a longer run.                         *)
(***************************************************************************)
C25_ExactRunOnly ==
  LastResort =>
    LET s == Trim(arg.v) IN
    IF \E k \in 1..Len(s) : StandaloneRun(s, k)
    THEN \E k \in 1..Len(s) :
           StandaloneRun(s, k) /\ ret = Chars(CanonicalOf(SubSeq(s, k, k + 31)))
    ELSE ret = Null

\* the part of C25 that holds: without 32 hex digits in a row the result is
\* null, and a result is the leftmost 32 hex digits in a row
C25_LeftmostRun ==
  LastResort =>
    LET s == Trim(arg.v) IN
    IF \E k \in 1..Len(s) : IsHexRun(s, k, 32)
    THEN \E k \in 1..Len(s) :
           /\ IsHexRun(s, k, 32)
           /\ \A m \in 1..(k - 1) : ~IsHexRun(s, m, 32)
           /\ ret = Chars(CanonicalOf(SubSeq(s, k, k + 31)))
    ELSE ret = Null

\* the string without its hyphens
RemoveHyphens(s) == SelectSeq(s, LAMBDA c : c # "-")

(***************************************************************************)
(* C26: for every string h of 32 hex digits formatUuid(h) has the          *)
(* canonical lowercase 8-4-4-4-12 shape, hyphens at offsets 8, 12, 16 and  *)
(* 20 of h, and without its hyphens it is h in lower case.                 *)
(***************************************************************************)
C26_FormatUuidRoundTrip ==
  op = "formatUuid" =>
    /\ IsCanonical(ret.v)
    /\ RemoveHyphens(ret.v) = ToLowerCase(arg.v)

C26_Witness ==
  /\ op = "formatUuid"
  /\ arg = Chars(HexC)
  /\ ret = Chars(<<"a", "b", "c", "d", "e", "f", "a", "b", "-", "c", "d", "e", "f", "-",
                   "a", "b", "c", "d", "-", "e", "f", "a", "b", "-">>
                   \o ToLowerCase(SubSeq(HexC, 21, 32)))

\* the string holds a hyphenated id that is not the whole of it
EmbedsHyphenated(s) ==
  /\ Len(s) > 36
  /\ \E i \in 0..(Len(s) - 36) : HasUuidShape(SubSeq(s, i + 1, i + 36))

(***************************************************************************)
(* C30: extractNotionId recognises the hyphenated form only as the whole   *)
(* trimmed input: of an input that is no UUID itself only runs of 32 hex   *)
(* digits are candidates, so a text whose only identifier is embedded in   *)
(* hyphenated form gives null; and whatever isValidNotionId calls valid    *)
(* extractNotionId does not map to null.                                   *)
(***************************************************************************)
C30_HyphenatedOnlyWhole ==
  /\ (op = "extractNotionId" /\ arg.t = "string" /\ ~HasUuidShape(Trim(arg.v))) =>
       LET s == Trim(arg.v) IN
       IF \E k \in 1..Len(s) : IsHexRun(s, k, 32)
       THEN \E k \in 1..Len(s) :
              IsHexRun(s, k, 32) /\ ret = Chars(CanonicalOf(SubSeq(s, k, k + 31)))
       ELSE ret = Null
  /\ op = "extractNotionId of valid" =>
       /\ ret # Null
       /\ ret.t = "string"
       /\ IsCanonical(ret.v)

C30_Witness ==
  /\ op = "extractNotionId"
  /\ arg.t = "string"
  /\ EmbedsHyphenated(Trim(arg.v))
  /\ SubSeq(Trim(arg.v), 1, 5) = <<"h", "t", "t", "p", "s">>
  /\ ret = Null

(***************************************************************************)
(* C27: the finished state is absorbing. Once the generator has completed  *)
(* (the loop ended, listFn failed, or return() was called) it stays        *)
(* completed, listFn is not called again, and every later request is       *)
(* answered {done: true}. The iterator only moves forward: the calls made  *)
(* and the answers given are never taken back or repeated from the start,  *)
(* the generator never returns to its initial state, and every item it     *)
(* hands over is the next one of the pages received, in order.             *)
(***************************************************************************)
Finished(i) == gen[i].state = "completed"

\* a rejection ends the sequence, so the resolved replies come first
ResolvedCount(rep) == Cardinality({k \in 1..Len(rep) : rep[k].t = "resolve"})

OnlyDone(o) == \A k \in 1..Len(o) : o[k].t = "done"

C27_FinishedAbsorbing ==
  [][\A i \in Seqs :
       /\ IsPrefix(calls[i], calls'[i])
       /\ IsPrefix(out[i], out'[i])
       /\ IsPrefix(replies[i], replies'[i])
       /\ gen[i].state # "suspendedStart" => gen'[i].state # "suspendedStart"
       /\ Len(calls'[i]) <= Len(replies'[i]) + 1
       /\ IsPrefix(Items(out'[i]), ConcatResults(replies'[i], ResolvedCount(replies'[i])))
       /\ Finished(i) =>
            /\ Finished(i)'
            /\ calls'[i] = calls[i]
            /\ replies'[i] = replies[i]
            /\ OnlyDone(SubSeq(out'[i], Len(out[i]) + 1, Len(out'[i])))
            /\ Len(queue[i]) = 0 /\ Len(queue'[i]) = 0
    ]_vars

\* a sequence ended by return() after an item, then asked again: done again
C27_Witness ==
  \E i \in Seqs :
    /\ Finished(i)
    /\ Len(out[i]) >= 3
    /\ out[i][Len(out[i]) - 2].t = "item"
    /\ out[i][Len(out[i]) - 1] = DoneOut("return")
    /\ out[i][Len(out[i])] = DoneOut("next")
    /\ Len(calls[i]) = Len(replies[i])
    /\ Len(calls[i]) < MaxCalls
    /\ replies[i][Len(replies[i])].t = "resolve"
    /\ Truthy(replies[i][Len(replies[i])].next_cursor)

(***************************************************************************)
(* C28: with a listFn that always responds in the end and a consumer that  *)
(* keeps consuming, the sequence finishes if and only if some response     *)
(* carries a falsy next_cursor or some call rejects. There is no cycle     *)
(* detection and no page limit: as long as the cursors are truthy listFn   *)
(* is called again, here up to the MaxCalls calls a run is followed for.   *)
(***************************************************************************)
\* some reply of listFn ends the loop
EndingReply(i) ==
  \E n \in 1..Len(replies[i]) :
    \/ replies[i][n].t = "reject"
    \/ replies[i][n].t = "resolve" /\ ~Truthy(replies[i][n].next_cursor)

\* the consumer has its last answer: the promise of collectPaginatedAPI is
\* settled, the iterator has said {done: true} or thrown
ConsumerDone(i) ==
  /\ Finished(i)
  /\ consumer[i] = "collect" => collected[i].promise # Pending
  /\ consumer[i] = "manual" => out[i] # <<>> /\ out[i][Len(out[i])].t \in {"done", "error"}

C28_FinishesIffEndingReply ==
  /\ [](Finished(1) <=> EndingReply(1) /\ gen[1].state # "suspendedYield")
  /\ [](Finished(1) => ConsumerDone(1))
  /\ EndingReply(1) ~> ConsumerDone(1)
  /\ <>(EndingReply(1) \/ Len(calls[1]) = MaxCalls)
  /\ []((~EndingReply(1) /\ Len(replies[1]) = MaxCalls) =>
          /\ ~Finished(1)
          /\ \A n \in 2..MaxCalls :
               calls[1][n] = CallArgs(firstPageArgs[1], replies[1][n - 1].next_cursor))

\* listFn called twice with the same cursor, then a null cursor: finished
C28_Witness ==
  /\ Len(calls[1]) = MaxCalls
  /\ Len(replies[1]) = MaxCalls
  /\ calls[1][MaxCalls] = calls[1][MaxCalls - 1]
  /\ replies[1][MaxCalls].t = "resolve"
  /\ replies[1][MaxCalls].next_cursor = Null
  /\ \A n \in 1..(MaxCalls - 1) : replies[1][n].t = "resolve" /\ Truthy(replies[1][n].next_cursor)
  /\ ConsumerDone(1)

====
